---- MODULE Spec2Model ----
(***************************************************************************)
(* EWSS - embedded WebSocket server.  A model of the single-threaded       *)
(* poll() reactor (Server::run), of the per-connection protocol state      *)
(* machine (Connection) and of the frame / handshake codecs it drives.     *)
(*                                                                         *)
(* Units.  A ring buffer holds "units".  A unit is either a real octet     *)
(* 0..255 (WebSocket frames are modelled octet for octet) or a lexical     *)
(* token >= 256 standing for one fixed substring of the HTTP upgrade       *)
(* request / 101 response.  The ring capacities, the peek window of the    *)
(* handshake parser and the two timeouts are scaled down; the scaled       *)
(* values are the bounds of the model.  A ring is represented by the FIFO  *)
(* sequence of the units it holds (oldest first) and its capacity.         *)
(***************************************************************************)
EXTENDS Integers, Sequences, FiniteSets, TLC

\* ------------------------------------------------------------------ bounds
\* Connection::kRxBufferSize (4096), in units.
RxCap == 8
\* Connection::kTxBufferSize (8192), in units.
TxCap == 8
\* The peek window of parse_handshake / closing_on_data (uint8_t temp[1024]).
HsPeek == 7
\* Connection::kHandshakeTimeout and kCloseTimeout (5000 ms), in clock ticks.
TimeoutTicks == 2
\* Server::kMaxConnections (64), the capacity of the connection container.
MaxConns == 3
\* The number of user callbacks recorded per connection.
MaxCb == 4
\* The number of connections a run accepts (ids 1..MaxIds).
MaxIds == 4
\* The number of rejections counted in a run.
MaxRejects == 2
\* The number of connection requests the listen backlog holds.
MaxPending == 1
\* MaxSlots of the ObjectPool checked on its own.
PoolSlots == 3
\* The largest admission limit of the admission test checked on its own.
MaxLimit == 20
\* RingBuffer::kCapacity of the ring checked index by index.
RingCap == 3
\* The number of messages a peer sends on one connection.
MaxMsgs == 2
\* The number of calls the application makes from outside a handler.
MaxApi == 1

\* ------------------------------------------------------- lexical tokens
\* "GET " at the start of the request line.
TokGET == 256
\* Any other request-line prefix (e.g. "POST").
TokPOST == 257
\* "Sec-WebSocket-Key: ".
TokKeyHdr == 258
\* "sec-websocket-key: ".
TokKeyHdrLower == 259
\* "\r\n".
TokCRLF == 260
\* Any header line text other than the key header (e.g. "Host: localhost").
TokHeader == 262
\* "HTTP/1.1 101 Switching Protocols\r\nUpgrade: websocket\r\n
\*  Connection: Upgrade\r\nSec-WebSocket-Accept: ".
TokResp101 == 261
\* Base of the units standing for "<accept-key>\r\n\r\n".
TokAcceptBase == 512
\* ' ' and '\t' and a key character.
ChSpace == 32
ChTab == 9
ChKey == 107

\* ---------------------------------------------------------------- helpers
Min(a, b) == IF a < b THEN a ELSE b

Take(s, n) == SubSeq(s, 1, Min(n, Len(s)))

Drop(s, n) == SubSeq(s, Min(n, Len(s)) + 1, Len(s))

\* Index of the first occurrence of pat in s at or after position from
\* (1-based), 0 when there is none: std::string_view::find.
Find(s, pat, from) ==
  LET hits == {i \in from..(Len(s) - Len(pat) + 1) :
                 SubSeq(s, i, i + Len(pat) - 1) = pat}
  IN IF hits = {} THEN 0 ELSE CHOOSE i \in hits : \A j \in hits : i <= j

RECURSIVE Xor8(_, _)
\* Bitwise exclusive or of two octets.
Xor8(a, b) ==
  IF a = 0 /\ b = 0 THEN 0
  ELSE (((a % 2) + (b % 2)) % 2) + 2 * Xor8(a \div 2, b \div 2)

\* ------------------------------------------------------------ frame codec
OpContinuation == 0
OpText == 1
OpBinary == 2
OpClose == 8
OpPing == 9
OpPong == 10

\* A uint64_t as its eight octets, most significant first, so that values
\* beyond the checker's integers keep all their bits.
U64(n) == <<0, 0, 0, 0, 0, 0, (n \div 256) % 256, n % 256>>

\* v is below 65536.
U64Small(v) == \A i \in 1..6 : v[i] = 0

\* The value of a small v.
U64Low(v) == v[7] * 256 + v[8]

\* (v << 8) | b on 64 bits: the top octet is shifted out.
U64ShiftIn(v, b) == Tail(v) \o <<b>>

RECURSIVE U64AddCarry(_, _, _)
\* Octet i of v plus carry, then the octets above it; wraps at 2^64.
U64AddCarry(v, i, carry) ==
  IF i = 0 THEN v
  ELSE LET sum == v[i] + carry
       IN U64AddCarry([v EXCEPT ![i] = sum % 256], i - 1, sum \div 256)

\* v + n on 64 bits, n a small size.
U64Add(v, n) == U64AddCarry(v, 8, n)

RECURSIVE ReadBE(_, _, _, _)
\* for (i = from; i < to; ++i) len = (len << 8) | uint8_t(data[i]), with the
\* 0-based indices of the code.
ReadBE(data, from, to, len) ==
  IF from >= to THEN len
  ELSE ReadBE(data, from + 1, to, U64ShiftIn(len, data[from + 1]))

\* ws::parse_frame_header of ewss.hpp.  size = 0 is "incomplete".
parse_frame_header(data) ==
  LET n == Len(data)
      none == [size |-> 0, fin |-> FALSE, opcode |-> 0, masked |-> FALSE,
               payload_len |-> U64(0)]
  IN IF n < 2 THEN none
     ELSE
       LET fin == data[1] \div 128 = 1
           opcode == data[1] % 16
           masked == data[2] \div 128 = 1
           len7 == data[2] % 128
           ext == IF len7 = 126 THEN 2 ELSE IF len7 = 127 THEN 8 ELSE 0
       IN IF n < 2 + ext THEN none
          ELSE
            LET len == IF len7 = 126 THEN ReadBE(data, 2, 4, U64(0))
                       ELSE IF len7 = 127 THEN ReadBE(data, 2, 10, U64(0))
                       ELSE U64(len7)
                hs == 2 + ext
            IN IF masked /\ n < hs + 4 THEN none
               ELSE [size |-> IF masked THEN hs + 4 ELSE hs, fin |-> fin,
                     opcode |-> opcode, masked |-> masked, payload_len |-> len]

RECURSIVE Or8(_, _)
\* Bitwise or of two octets.
Or8(a, b) ==
  IF a = 0 /\ b = 0 THEN 0
  ELSE (IF a % 2 = 1 \/ b % 2 = 1 THEN 1 ELSE 0) + 2 * Or8(a \div 2, b \div 2)

\* Bitwise or on 64 bits.
U64Or(v, w) == [i \in 1..8 |-> Or8(v[i], w[i])]

\* v << (8 * k) on 64 bits.
U64ShlBytes(v, k) == [i \in 1..8 |-> IF i + k <= 8 THEN v[i + k] ELSE 0]

\* A plain char holding octet b, converted to a 64-bit unsigned value (or
\* to int and from there to 64 bits): where plain char is signed, octets
\* from 128 up are negative and the conversion extends the sign.
CharToU64(b, char_signed) ==
  IF char_signed /\ b >= 128 THEN <<255, 255, 255, 255, 255, 255, 255, b>>
  ELSE U64(b)

\* static_cast<uint16_t>(char), promoted to int, << 8, as 64 bits.
CharToU16Shl8(b, char_signed) ==
  LET wide == CharToU64(b, char_signed)
  IN <<0, 0, 0, 0, 0, wide[7], wide[8], 0>>

RECURSIVE OrShifted(_, _, _, _)
\* The or of uint64_t(data[i]) << (8 * (9 - i)) for the 0-based i in
\* from..9.
OrShifted(data, from, char_signed, acc) ==
  IF from > 9 THEN acc
  ELSE OrShifted(data, from + 1, char_signed,
                 U64Or(acc, U64ShlBytes(CharToU64(data[from + 1], char_signed),
                                        9 - from)))

\* ws::parse_frame_header of ewss/utils.hpp, which reads the first two
\* octets through uint8_t and the length octets as plain char.  char_signed
\* is the build's signedness of plain char.
utils_parse_frame_header(data, char_signed) ==
  LET n == Len(data)
      none == [size |-> 0, fin |-> FALSE, opcode |-> 0, masked |-> FALSE,
               payload_len |-> U64(0)]
  IN IF n < 2 THEN none
     ELSE
       LET byte0 == data[1]
           byte1 == data[2]
           fin == byte0 \div 128 = 1
           opcode == byte0 % 16
           masked == byte1 \div 128 = 1
           len7 == byte1 % 128
           ext == IF len7 = 126 THEN 2 ELSE IF len7 = 127 THEN 8 ELSE 0
       IN IF n < 2 + ext THEN none
          ELSE
            LET len == IF len7 = 126
                       THEN U64Or(CharToU16Shl8(data[3], char_signed),
                                  CharToU64(data[4], char_signed))
                       ELSE IF len7 = 127
                         THEN OrShifted(data, 2, char_signed, U64(0))
                       ELSE U64(len7)
                hs == 2 + ext
            IN IF masked /\ n < hs + 4 THEN none
               ELSE [size |-> IF masked THEN hs + 4 ELSE hs, fin |-> fin,
                     opcode |-> opcode, masked |-> masked, payload_len |-> len]

RECURSIVE Shr8(_, _)
\* n >> (8 * i).
Shr8(n, i) == IF i = 0 THEN n ELSE Shr8(n \div 256, i - 1)

\* A size_t (64 bits) holding n.
SizeT(n) == [k \in 1..8 |-> Shr8(n, 8 - k) % 256]

\* (v >> (i * 8)) & 0xFF.
Octet(v, i) == v[8 - i]

\* An encoder without the 64-bit form.
encode_frame_header_short(opcode, payload_len, mask) ==
  LET m == IF mask THEN 128 ELSE 0
  IN IF U64Small(payload_len) /\ U64Low(payload_len) < 126
     THEN <<128 + opcode, m + U64Low(payload_len)>>
     ELSE <<128 + opcode, m + 126, Octet(payload_len, 1), Octet(payload_len, 0)>>

\* ws::encode_frame_header: FIN | opcode, then the 7-bit / 16-bit / 64-bit
\* length form.  payload_len is a size_t.
encode_frame_header(opcode, payload_len, mask) ==
  LET m == IF mask THEN 128 ELSE 0
  IN IF U64Small(payload_len) /\ U64Low(payload_len) < 126
     THEN <<128 + opcode, m + U64Low(payload_len)>>
     ELSE IF U64Small(payload_len)
       THEN <<128 + opcode, m + 126, Octet(payload_len, 1), Octet(payload_len, 0)>>
     ELSE <<128 + opcode, m + 127>> \o [k \in 1..8 |-> Octet(payload_len, 8 - k)]

\* Connection::unmask_payload.
unmask_payload(payload, mask_key) ==
  [i \in 1..Len(payload) |-> Xor8(payload[i], mask_key[((i - 1) % 4) + 1])]

\* ------------------------------------------------------------ ring buffer
\* RingBuffer::push: all or nothing.
push(buf, cap, data) ==
  IF cap - Len(buf) < Len(data) THEN [ok |-> FALSE, buf |-> buf]
  ELSE [ok |-> TRUE, buf |-> buf \o data]

\* RingBuffer::peek.
peek(buf, max_len) == Take(buf, max_len)

\* RingBuffer::advance.
advance(buf, len) == Drop(buf, len)

\* RingBuffer::commit_write after readv placed `data` in the writable slices.
commit_write(buf, cap, data) == buf \o Take(data, cap - Len(buf))

\* ------------------------------------------- ring buffer, index by index
\* RingBuffer as the class stores it: the array buffer_ (indices from 0),
\* read_idx_, write_idx_ and count_.  The sequences above are what peek
\* shows of it.
NewRing == [buffer_ |-> [i \in 0..(RingCap - 1) |-> 0],
            read_idx_ |-> 0, write_idx_ |-> 0, count_ |-> 0]

\* RingBuffer::size.
RingBuffer_size(rb) == rb.count_

\* RingBuffer::available.
RingBuffer_available(rb) == RingCap - rb.count_

RECURSIVE PushLoop(_, _, _)
\* The copy loop of RingBuffer::push from element i (0-based) on.
PushLoop(rb, data, i) ==
  IF i >= Len(data) THEN rb
  ELSE PushLoop([rb EXCEPT !.buffer_[rb.write_idx_] = data[i + 1],
                           !.write_idx_ = (rb.write_idx_ + 1) % RingCap],
                data, i + 1)

\* A push that stores as much of data as fits and reports failure.
RingBuffer_push_partial(rb, data) ==
  IF RingBuffer_available(rb) < Len(data)
  THEN LET part == Take(data, RingBuffer_available(rb))
       IN [rb |-> [PushLoop(rb, part, 0) EXCEPT !.count_ = rb.count_ + Len(part)],
           ret |-> FALSE]
  ELSE [rb |-> [PushLoop(rb, data, 0) EXCEPT !.count_ = rb.count_ + Len(data)],
        ret |-> TRUE]

\* RingBuffer::push: the buffer afterwards and the value returned.
RingBuffer_push(rb, data) ==
  IF RingBuffer_available(rb) < Len(data) THEN [rb |-> rb, ret |-> FALSE]
  ELSE [rb |-> [PushLoop(rb, data, 0) EXCEPT !.count_ = rb.count_ + Len(data)],
        ret |-> TRUE]

\* RingBuffer::peek: the elements copied out.
RingBuffer_peek(rb, max_len) ==
  [i \in 1..Min(max_len, rb.count_) |->
     rb.buffer_[(rb.read_idx_ + i - 1) % RingCap]]

\* An advance that does not wrap the read index.
RingBuffer_advance_nowrap(rb, len) ==
  LET n == Min(len, rb.count_)
  IN [rb EXCEPT !.read_idx_ = rb.read_idx_ + n, !.count_ = rb.count_ - n]

\* RingBuffer::advance.
RingBuffer_advance(rb, len) ==
  LET n == IF len > rb.count_ THEN rb.count_ ELSE len
  IN [rb EXCEPT !.read_idx_ = (rb.read_idx_ + n) % RingCap,
                !.count_ = rb.count_ - n]

\* RingBuffer::clear.
RingBuffer_clear(rb) == [rb EXCEPT !.read_idx_ = 0, !.write_idx_ = 0, !.count_ = 0]

\* A readable view that never takes a second slice.
RingBuffer_fill_iovec_single(rb, max_iov) ==
  IF rb.count_ = 0 \/ max_iov = 0 THEN <<>>
  ELSE <<[base |-> rb.read_idx_, len |-> Min(RingCap - rb.read_idx_, rb.count_)]>>

\* RingBuffer::fill_iovec: the slices written to iov, each the index of its
\* first element in buffer_ and its length.
RingBuffer_fill_iovec(rb, max_iov) ==
  LET contiguous == RingCap - rb.read_idx_
  IN IF rb.count_ = 0 \/ max_iov = 0 THEN <<>>
     ELSE IF contiguous >= rb.count_
       THEN <<[base |-> rb.read_idx_, len |-> rb.count_]>>
     ELSE IF max_iov < 2
       THEN <<[base |-> rb.read_idx_, len |-> contiguous]>>
     ELSE <<[base |-> rb.read_idx_, len |-> contiguous],
            [base |-> 0, len |-> rb.count_ - contiguous]>>

\* RingBuffer::fill_iovec_write.
RingBuffer_fill_iovec_write(rb, max_iov) ==
  LET avail == RingBuffer_available(rb)
      contiguous == RingCap - rb.write_idx_
  IN IF avail = 0 \/ max_iov = 0 THEN <<>>
     ELSE IF contiguous >= avail
       THEN <<[base |-> rb.write_idx_, len |-> avail]>>
     ELSE IF max_iov < 2
       THEN <<[base |-> rb.write_idx_, len |-> contiguous]>>
     ELSE <<[base |-> rb.write_idx_, len |-> contiguous],
            [base |-> 0, len |-> avail - contiguous]>>

\* A commit_write that does not wrap the write index.
RingBuffer_commit_write_nowrap(rb, len) ==
  LET n == Min(len, RingBuffer_available(rb))
  IN [rb EXCEPT !.write_idx_ = rb.write_idx_ + n, !.count_ = rb.count_ + n]

\* RingBuffer::commit_write.
RingBuffer_commit_write(rb, len) ==
  LET n == IF len > RingBuffer_available(rb) THEN RingBuffer_available(rb) ELSE len
  IN [rb EXCEPT !.write_idx_ = (rb.write_idx_ + n) % RingCap,
                !.count_ = rb.count_ + n]

\* The array indices a sequence of slices names, slice after slice.
SliceIndices(slices) ==
  IF Len(slices) = 0 THEN <<>>
  ELSE IF Len(slices) = 1
    THEN [k \in 1..slices[1].len |-> slices[1].base + k - 1]
  ELSE [k \in 1..slices[1].len |-> slices[1].base + k - 1]
       \o [k \in 1..slices[2].len |-> slices[2].base + k - 1]

\* What ::writev reads through the slices.
Gather(rb, slices) ==
  LET at == SliceIndices(slices) IN [k \in 1..Len(at) |-> rb.buffer_[at[k]]]

\* What ::readv leaves in buffer_ when the kernel places data through the
\* slices (data no longer than the slices together).
Scatter(rb, slices, data) ==
  LET at == SliceIndices(slices)
  IN [rb EXCEPT !.buffer_ =
        [i \in 0..(RingCap - 1) |->
           IF \E k \in 1..Len(data) : at[k] = i
           THEN data[CHOOSE k \in 1..Len(data) : at[k] = i]
           ELSE rb.buffer_[i]]]

\* ------------------------------------------------------------- connection
\* Connection::kTxHighWatermark = kTxBufferSize * 3 / 4.
kTxHighWatermark == (TxCap * 3) \div 4

\* Connection::kTxLowWatermark = kTxBufferSize / 4.
kTxLowWatermark == TxCap \div 4

\* The window of parse_frames (uint8_t temp[4096], the size of the RX ring).
FramePeek == RxCap

\* The payload an application handler sends when it is not echoing.
Greeting == <<97>>

\* close(uint16_t code = 1000).
kDefaultCloseCode == 1000

\* What an application handler does with the connection it is handed.
Reactions == {"none", "send", "close"}

\* Connection::Connection(int fd): Handshaking, empty rings, created now.
\* age / closing_age are the clock ticks elapsed since created_at_ /
\* closing_at_ (they stop counting two past the timeout); cbs is the record
\* of the user callbacks invoked so far, open_tx the content of TX when
\* on_open was invoked and app_closed whether the application has called
\* close() on the connection.  wire and peer_sent are not members: what the
\* peer has sent and the kernel still holds for this socket, and the number
\* of messages the peer has sent.  rx_hist is every unit readv has placed in
\* RX so far and delivered the payloads handed to on_message so far;
\* tx_hist is every unit pushed to TX so far, tx_log the kind of each write
\* that pushed something, and out every unit writev has taken.  These five
\* records are kept for a connection whose trace flag is set.  io_failed,
\* kept for a connection whose watch flag is set, records that handle_read
\* or a write handler of the connection has returned an error to
\* Server::handle_connection_io.
NewConnection(id) ==
  [id |-> id, state |-> "Handshaking", sock |-> TRUE, rx |-> <<>>, tx |-> <<>>,
   handshake_completed |-> FALSE, write_paused |-> FALSE,
   age |-> 0, closing_age |-> 0,
   cbs |-> <<>>, open_tx |-> <<>>, app_closed |-> FALSE,
   wire |-> <<>>, peer_sent |-> 0, rx_hist |-> <<>>, delivered |-> <<>>,
   tx_hist |-> <<>>, tx_log |-> <<>>, out |-> <<>>, trace |-> FALSE,
   oob |-> FALSE, spin |-> FALSE, watch |-> FALSE, io_failed |-> FALSE]

\* A user callback is entered: recorded in cbs.
Invoke(c, cb) == [c EXCEPT !.cbs = Append(@, cb)]

\* on_message is entered with a payload.
Deliver(c, payload) ==
  [Invoke(c, "message") EXCEPT !.delivered = IF c.trace THEN Append(@, payload) ELSE @]

\* Connection::is_closed.
is_closed(c) == ~c.sock \/ c.state = "Closed"

\* Connection::has_data_to_send.
has_data_to_send(c) == c.tx # <<>>

\* Connection::check_high_watermark.
check_high_watermark(c) ==
  IF ~c.write_paused /\ Len(c.tx) > kTxHighWatermark
  THEN Invoke([c EXCEPT !.write_paused = TRUE], "backpressure")
  ELSE c

\* check_low_watermark that does not look at write_paused_.
check_low_watermark_unguarded(c) ==
  IF Len(c.tx) < kTxLowWatermark
  THEN Invoke([c EXCEPT !.write_paused = FALSE], "drain")
  ELSE c

\* Connection::check_low_watermark.
check_low_watermark(c) ==
  IF c.write_paused /\ Len(c.tx) < kTxLowWatermark
  THEN Invoke([c EXCEPT !.write_paused = FALSE], "drain")
  ELSE c

\* The record of a write to TX: c with TX replaced by tx, which is c.tx
\* with what the pushes of the write appended.
Queued(c, tx, kind) ==
  IF ~c.trace THEN [c EXCEPT !.tx = tx]
  ELSE [c EXCEPT !.tx = tx,
                 !.tx_hist = @ \o Drop(tx, Len(c.tx)),
                 !.tx_log = IF Len(tx) > Len(c.tx) THEN Append(@, kind) ELSE @]

\* Connection::write_frame: the header is pushed, then the payload; each
\* push is all or nothing on its own.
write_frame(c, payload, opcode) ==
  LET h == push(c.tx, TxCap, encode_frame_header(opcode, SizeT(Len(payload)), FALSE))
  IN IF ~h.ok THEN c
     ELSE IF payload = <<>> THEN Queued(c, h.buf, opcode)
     ELSE Queued(c, push(h.buf, TxCap, payload).buf, opcode)

\* Connection::write_close_frame: header, then the big-endian close code.
write_close_frame(c, code) ==
  LET close_payload == <<(code \div 256) % 256, code % 256>>
      h == push(c.tx, TxCap, encode_frame_header(OpClose, SizeT(2), FALSE))
  IN IF ~h.ok THEN c
     ELSE Queued(c, push(h.buf, TxCap, close_payload).buf, OpClose)

\* send_impl without its state test.
send_impl_unguarded(c, payload, binary) ==
  check_high_watermark(
    write_frame(c, payload, IF binary THEN OpBinary ELSE OpText))

\* Connection::send_impl (send / send_binary).
send_impl(c, payload, binary) ==
  IF c.state # "Open" THEN c
  ELSE check_high_watermark(
         write_frame(c, payload, IF binary THEN OpBinary ELSE OpText))

RECURSIVE React(_, _, _)
RECURSIVE close(_, _, _)
RECURSIVE transition_to_state(_, _, _)

\* Connection::transition_to_state.  r is what the application's handlers
\* do when they are invoked during this call.
transition_to_state(c, state, r) ==
  CASE state = "Handshaking" -> [c EXCEPT !.state = "Handshaking"]
    [] state = "Open" ->
         React(Invoke([c EXCEPT !.state = "Open", !.open_tx = c.tx], "open"),
               r, Greeting)
    [] state = "Closing" -> [c EXCEPT !.state = "Closing", !.closing_age = 0]
    [] state = "Closed" ->
         React(Invoke([c EXCEPT !.state = "Closed"], "close_clean"), r, Greeting)

\* close that treats Closing as it treats Open.
close_resend(c, code, r) ==
  IF c.state = "Closed" THEN c
  ELSE IF c.state \in {"Open", "Closing"}
    THEN transition_to_state(write_close_frame(c, code), "Closing", r)
  ELSE [transition_to_state(c, "Closed", r) EXCEPT !.sock = FALSE]

\* close that queues a close frame and enters Closing from every state but
\* Closed.
close_framed(c, code, r) ==
  IF c.state = "Closed" THEN c
  ELSE transition_to_state(write_close_frame(c, code), "Closing", r)

\* Connection::close.
close(c, code, r) ==
  IF c.state = "Closed" THEN c
  ELSE IF c.state = "Open"
    THEN transition_to_state(write_close_frame(c, code), "Closing", r)
  ELSE [transition_to_state(c, "Closed", r) EXCEPT !.sock = FALSE]

\* The body of a user handler: nothing, conn->send(payload) or conn->close().
React(c, r, payload) ==
  CASE r = "none" -> c
    [] r = "send" -> send_impl(c, payload, FALSE)
    [] r = "close" -> close([c EXCEPT !.app_closed = TRUE], kDefaultCloseCode, r)

\* Connection::generate_accept_key: Base64(SHA1(key ++ GUID)), one unit that
\* depends on the key alone.
RECURSIVE SumSeq(_)
SumSeq(s) == IF s = <<>> THEN 0 ELSE s[1] + SumSeq(Tail(s))

generate_accept_key(client_key) == TokAcceptBase + (SumSeq(client_key) % 256)

\* The 101 response parse_handshake formats for a key.
Response101(ws_key) == <<TokResp101, generate_accept_key(ws_key)>>

RECURSIVE TrimRight(_)
\* The trailing ' ' / '\t' removal loop of parse_handshake.
TrimRight(s) ==
  IF s # <<>> /\ s[Len(s)] \in {ChSpace, ChTab}
  THEN TrimRight(SubSeq(s, 1, Len(s) - 1)) ELSE s

\* A handshake_size that covers everything that was peeked.
handshake_size_all(end_pos) == HsPeek

\* handshake_size = end_pos + 4: up to and including "\r\n\r\n", whose first
\* "\r\n" is the unit at end_pos.
handshake_size(end_pos) == end_pos + 1

\* Connection::parse_handshake.  ok is has_value() of the result.
parse_handshake(c) ==
  LET data == peek(c.rx, HsPeek)
      end_pos == Find(data, <<TokCRLF, TokCRLF>>, 1)
      fail == [ok |-> FALSE, c |-> c]
  IN IF Len(data) = 0 THEN fail
     ELSE IF end_pos = 0 THEN fail
     ELSE IF Take(data, 1) # <<TokGET>> THEN fail
     ELSE
       LET upper == Find(data, <<TokKeyHdr>>, 1)
           key_pos == IF upper = 0 THEN Find(data, <<TokKeyHdrLower>>, 1) ELSE upper
           value_start == key_pos + 1
           value_end == Find(data, <<TokCRLF>>, value_start)
       IN IF key_pos = 0 THEN fail
          ELSE IF value_end = 0 THEN fail
          ELSE
            LET ws_key == TrimRight(SubSeq(data, value_start, value_end - 1))
                consumed == [c EXCEPT !.rx = advance(@, handshake_size(end_pos))]
                resp == push(c.tx, TxCap, Response101(ws_key))
            IN IF ws_key = <<>> THEN fail
               ELSE IF ~resp.ok THEN [ok |-> FALSE, c |-> consumed]
               ELSE [ok |-> TRUE,
                     c |-> [Queued(consumed, resp.buf, TokResp101)
                              EXCEPT !.handshake_completed = TRUE]]

\* handshake_on_data that opens the connection whatever the parse gave.
handshake_on_data_unconditional(c, r) ==
  [ok |-> TRUE, c |-> transition_to_state(parse_handshake(c).c, "Open", r)]

\* detail::handshake_on_data.
handshake_on_data(c, r) ==
  LET result == parse_handshake(c)
  IN IF result.ok
     THEN [ok |-> TRUE, c |-> transition_to_state(result.c, "Open", r)]
     ELSE result

\* The close case of parse_frames that leaves the socket open.
parse_frames_close_half(c, r) ==
  transition_to_state(React(Invoke(c, "close_unclean"), r, Greeting), "Closed", r)

\* The close case of the switch in Connection::parse_frames:
\* on_close(false), transition_to_state(kClosed), socket_.close(), return.
parse_frames_close(c, r) ==
  [transition_to_state(React(Invoke(c, "close_unclean"), r, Greeting),
                       "Closed", r) EXCEPT !.sock = FALSE]

RECURSIVE parse_frames_in(_, _, _)
\* Connection::parse_frames with a snapshot array temp of window elements:
\* one turn of the while loop, then the rest.  header_size +
\* header.payload_len is a size_t sum and wraps at 2^64; when it has
\* wrapped, the payload the switch works on starts inside the snapshot and
\* extends beyond it (oob), and the model keeps the part inside.  When the
\* sum has wrapped to 0, advance(0) consumes nothing and the loop meets the
\* same frame again without end (spin): the model keeps the first turn.
parse_frames_in(c, r, window) ==
  LET data == peek(c.rx, window)
      header == parse_frame_header(data)
      total == U64Add(header.payload_len, header.size)
      total_frame_size == U64Low(total)
      wrapped == U64Small(total) /\ total_frame_size < header.size
  IN IF Len(data) = 0 \/ header.size = 0 \/ ~U64Small(total)
        \/ Len(data) < total_frame_size THEN c
     ELSE
       LET raw == IF wrapped THEN Drop(data, header.size)
                  ELSE SubSeq(data, header.size + 1, total_frame_size)
           payload == IF header.masked
                      THEN unmask_payload(raw, SubSeq(data, header.size - 3, header.size))
                      ELSE raw
           c0 == IF wrapped /\ (header.masked \/ header.opcode \in {OpText, OpBinary, OpPing})
                 THEN [c EXCEPT !.oob = TRUE] ELSE c
           Consumed(d) == [d EXCEPT !.rx = advance(@, total_frame_size)]
           Again(d) == IF total_frame_size = 0 THEN [d EXCEPT !.spin = TRUE]
                       ELSE parse_frames_in(Consumed(d), r, window)
       IN CASE header.opcode \in {OpText, OpBinary} ->
                 Again(React(Deliver(c0, payload), r, payload))
            [] header.opcode = OpClose -> parse_frames_close(c0, r)
            [] header.opcode = OpPing ->
                 Again(write_frame(c0, payload, OpPong))
            [] OTHER -> Again(c0)

\* Connection::parse_frames of a connection of the server.
parse_frames(c, r) == parse_frames_in(c, r, FramePeek)

\* detail::open_on_data.
open_on_data(c, r) == [ok |-> TRUE, c |-> parse_frames(c, r)]

\* detail::closing_on_data.
closing_on_data(c, r) ==
  LET data == peek(c.rx, HsPeek)
      header == parse_frame_header(data)
  IN IF Len(data) > 0 /\ header.size > 0 /\ header.opcode = OpClose
     THEN [ok |-> TRUE, c |-> [transition_to_state(c, "Closed", r) EXCEPT !.sock = FALSE]]
     ELSE [ok |-> TRUE, c |-> c]

\* detail::closed_on_data.
closed_on_data(c, r) == [ok |-> FALSE, c |-> c]

\* ops_->on_data: the handler of the current state.
on_data(c, r) ==
  CASE c.state = "Handshaking" -> handshake_on_data(c, r)
    [] c.state = "Open" -> open_on_data(c, r)
    [] c.state = "Closing" -> closing_on_data(c, r)
    [] c.state = "Closed" -> closed_on_data(c, r)

\* What one readv on the socket can give: the first n > 0 octets the kernel
\* holds (never more than RX has room for), end of file (n = 0) once the
\* peer has shut down and everything was read, EAGAIN, or another errno.
\* A closed descriptor gives EBADF.  When the kernel holds nothing the peer's
\* next message (one of msgs) may have arrived in the meantime.
ReadOutcomes(c, msgs) ==
  IF ~c.sock THEN {[kind |-> "error", bytes |-> <<>>, rest |-> c.wire, sent |-> c.peer_sent]}
  ELSE LET room == RxCap - Len(c.rx)
           Parts(w, k) == {[kind |-> "data", bytes |-> Take(w, n), rest |-> Drop(w, n),
                            sent |-> k] : n \in 1..Min(Len(w), room)}
           Bare(kind) == [kind |-> kind, bytes |-> <<>>, rest |-> c.wire, sent |-> c.peer_sent]
       IN {Bare("eagain"), Bare("error")}
          \cup (IF c.wire # <<>> THEN Parts(c.wire, c.peer_sent)
                ELSE {Bare("eof")}
                     \cup (IF c.peer_sent < MaxMsgs
                           THEN UNION {Parts(m, c.peer_sent + 1) : m \in msgs}
                           ELSE {}))

\* Connection::handle_read.  The result of on_data is not looked at.
handle_read(c, rd, r) ==
  IF Len(c.rx) = RxCap THEN [ok |-> FALSE, c |-> c]
  ELSE CASE rd.kind = "data" ->
              [ok |-> TRUE,
               c |-> on_data([c EXCEPT !.rx = commit_write(@, RxCap, rd.bytes),
                                       !.rx_hist = IF c.trace THEN @ \o rd.bytes ELSE @,
                                       !.wire = rd.rest,
                                       !.peer_sent = rd.sent], r).c]
         [] rd.kind = "eof" -> [ok |-> FALSE, c |-> c]
         [] rd.kind = "eagain" -> [ok |-> TRUE, c |-> c]
         [] rd.kind = "error" -> [ok |-> FALSE, c |-> c]

\* What one writev can give: n octets taken (all of TX or, a partial
\* write, half of it), EAGAIN, or another errno.  wr is n, 0 for EAGAIN,
\* -1 for an error.
WriteOutcomes(c) ==
  IF ~c.sock THEN {-1} ELSE {-1, 0, (Len(c.tx) + 1) \div 2, Len(c.tx)}

\* handle_write_vectored that empties TX whatever writev took.
handle_write_vectored_flush(c, wr) ==
  IF c.tx = <<>> THEN [ok |-> TRUE, c |-> c]
  ELSE IF wr > 0
    THEN [ok |-> TRUE,
          c |-> check_low_watermark([c EXCEPT !.tx = <<>>,
                                              !.out = IF c.trace THEN @ \o peek(c.tx, wr)
                                                      ELSE @])]
  ELSE IF wr < 0 THEN [ok |-> FALSE, c |-> c]
  ELSE [ok |-> TRUE, c |-> c]

\* Connection::handle_write_vectored (handle_write takes the same steps on
\* at most kTempReadSize octets).
handle_write_vectored(c, wr) ==
  IF c.tx = <<>> THEN [ok |-> TRUE, c |-> c]
  ELSE IF wr > 0
    THEN [ok |-> TRUE,
          c |-> check_low_watermark([c EXCEPT !.tx = advance(@, wr),
                                              !.out = IF c.trace THEN @ \o peek(c.tx, wr)
                                                      ELSE @])]
  ELSE IF wr < 0 THEN [ok |-> FALSE, c |-> c]
  ELSE [ok |-> TRUE, c |-> c]

\* Connection::is_handshake_timed_out.
is_handshake_timed_out(c) == c.state = "Handshaking" /\ c.age > TimeoutTicks

\* Connection::is_close_timed_out.
is_close_timed_out(c) == c.state = "Closing" /\ c.closing_age > TimeoutTicks

\* ------------------------------------------------------------ what peers send
ReqValid == <<TokGET, TokCRLF, TokKeyHdr, ChKey, TokCRLF, TokCRLF>>
ReqLowerKey == <<TokGET, TokCRLF, TokKeyHdrLower, ChKey, TokCRLF, TokCRLF>>
ReqBadMethod == <<TokPOST, TokCRLF, TokKeyHdr, ChKey, TokCRLF, TokCRLF>>
ReqNoKey == <<TokGET, TokCRLF, TokCRLF>>
ReqEmptyKey == <<TokGET, TokCRLF, TokKeyHdr, ChSpace, TokCRLF, TokCRLF>>
\* A request with one more header line: it fits in RX and is longer than
\* the snapshot parse_handshake takes of RX.
ReqLong == <<TokGET, TokCRLF, TokHeader, TokCRLF, TokKeyHdr, ChKey, TokCRLF, TokCRLF>>
FrameText == <<129, 1, 97>>
FrameTextB == <<129, 1, 98>>
FrameTextMasked == <<129, 129, 1, 2, 3, 4, 96>>
FrameEmptyText == <<129, 0>>
FramePing == <<137, 0>>
FrameClose == <<136, 0>>

\* What a client sends while the server is still handshaking: a request,
\* well-formed or not, or a request with a first frame right behind it.
HandshakeMsgs ==
  {ReqValid, ReqLowerKey, ReqBadMethod, ReqNoKey, ReqEmptyKey, ReqValid \o FrameEmptyText}

\* What a client sends after the handshake: a frame, or two back to back.
FrameMsgs ==
  {FrameText, FrameTextMasked, FramePing, FrameClose,
   FrameText \o FrameTextB, FrameText \o FrameClose}

\* The arguments the application passes to send / send_binary.
SendArgs == {[payload |-> <<97>>, binary |-> FALSE],
             [payload |-> <<98, 98, 98>>, binary |-> TRUE]}

\* An environment: what peers put on the wire (hs while the server is
\* handshaking, fr afterwards), how many clock ticks a poll may take, how
\* many connections the peers open in a run, how many of them may be turned
\* away, and whether they are traced and watched for failed reads and
\* writes.
FullEnv ==
  [hs |-> HandshakeMsgs, fr |-> FrameMsgs, dts |-> {0}, trace |-> FALSE, watch |-> FALSE,
   accepts |-> 2, rejects |-> 1]

\* Peers that only ever send a valid request and a close frame, and a
\* clock that runs.
TimedEnv ==
  [hs |-> {ReqValid}, fr |-> {FrameClose}, dts |-> {0, 1}, trace |-> FALSE, watch |-> FALSE,
   accepts |-> 2, rejects |-> 1]

\* Peers that connect and then stay silent or go away.
SilentEnv ==
  [hs |-> {}, fr |-> {}, dts |-> {0}, trace |-> FALSE, watch |-> FALSE,
   accepts |-> MaxIds, rejects |-> MaxRejects]

\* One peer that completes the handshake, with or without a first frame
\* behind the request, and then sends frames; what the connection reads,
\* delivers, queues and writes is recorded.
TracedEnv ==
  [hs |-> {ReqValid, ReqValid \o FrameEmptyText},
   fr |-> {FrameTextMasked, FramePing, FrameText \o FrameTextB, FrameText \o FrameClose},
   dts |-> {0}, trace |-> TRUE, watch |-> FALSE, accepts |-> 1, rejects |-> 1]

Msgs(env, c) == IF c.state = "Handshaking" THEN env.hs ELSE env.fr

\* ------------------------------------------------------------------ server
VARIABLES
  conns,                \* Server::connections_, in container order
  is_running,           \* Server::is_running_
  max_connections,      \* Server::max_connections_
  next_conn_id,         \* ewss_next_conn_id()
  active_connections,   \* stats_.active_connections
  rejected_connections, \* stats_.rejected_connections
  handshake_errors,     \* stats_.handshake_errors
  buffer_overflows,     \* stats_.buffer_overflows
  pc,                   \* where the thread in Server::run is
  nfds,                 \* the local nfds of the current iteration
  io_i,                 \* the index i of the client I/O loop
  stop_in_run,          \* history: stop() was called while run() executes
  lost_stop,            \* history: an iteration began after that stop()
  op,                   \* history: the last user API call and its argument
  api_calls,            \* history: the number of user API calls so far
  pending,              \* connections waiting in the listen backlog
  rb,                   \* a RingBuffer driven on its own, index by index
  rb_fifo,              \* history: the elements stored in rb and not consumed
  rb_op,                \* history: the last call on rb, its arguments and result
  fh,                   \* a byte string and what parse_frame_header makes of it
  rt,                   \* a header to encode and what the codec makes of it
  cx,                   \* an Open connection driven on its own, before and after
  adm,                  \* a pending connection request and what becomes of it
  pool,                 \* an ObjectPool driven on its own
  pool_held,            \* history: the indices acquire returned, not released since
  pool_op               \* history: the last call on pool, its argument and result

vars == <<conns, is_running, max_connections, next_conn_id, active_connections,
          rejected_connections, handshake_errors, buffer_overflows, pc, nfds,
          io_i, stop_in_run, lost_stop, op,
          api_calls, pending, rb, rb_fifo, rb_op, fh, rt, cx,
          adm, pool, pool_held, pool_op>>

\* The variables of the server, and those of the units checked on their own.
server_vars == <<conns, is_running, max_connections, next_conn_id,
                 active_connections, rejected_connections, handshake_errors,
                 buffer_overflows, pc, nfds, io_i,
                 stop_in_run, lost_stop, op, api_calls, pending>>
unit_vars == <<rb, rb_fifo, rb_op, fh, rt, cx, adm, pool, pool_held, pool_op>>
pool_vars == <<pool, pool_held, pool_op>>

\* The error counters of the stats: no statement of the server adds to
\* them; ServerStats::reset stores 0.
error_counters == <<handshake_errors, buffer_overflows>>

NoOp == [name |-> "none", idx |-> 0, pre |-> NewConnection(0),
         payload |-> <<>>, binary |-> FALSE]

Bounded(cs) == \A i \in 1..Len(cs) : Len(cs[i].cbs) <= MaxCb

\* An overload test that already fires at the threshold.
is_overloaded_at(active, pool_capacity) == active >= ((pool_capacity * 9) \div 10)

\* ServerStats::is_overloaded.
is_overloaded(active, pool_capacity) == active > ((pool_capacity * 9) \div 10)

\* One clock tick passes for a connection.
Tick(c) == [c EXCEPT !.age = Min(@ + 1, TimeoutTicks + 2),
                     !.closing_age = IF c.state = "Closing"
                                     THEN Min(@ + 1, TimeoutTicks + 2) ELSE @]

\* A sweep that removes nothing.
remove_closed_connections_none(cs) == [cs |-> cs, removed |-> 0]

RECURSIVE RemoveLoop_skip(_, _, _)
\* The loop stepping to i + 1 after a removal as well: the connection moved
\* into slot i is not looked at.
RemoveLoop_skip(cs, i, removed) ==
  IF i > Len(cs) THEN [cs |-> cs, removed |-> removed]
  ELSE IF is_closed(cs[i])
    THEN LET moved == IF i < Len(cs) THEN [cs EXCEPT ![i] = cs[Len(cs)]] ELSE cs
         IN RemoveLoop_skip(SubSeq(moved, 1, Len(cs) - 1), i + 1, removed + 1)
  ELSE RemoveLoop_skip(cs, i + 1, removed)

RECURSIVE RemoveLoop(_, _, _)
\* The while loop of Server::remove_closed_connections (i is 1-based).
RemoveLoop(cs, i, removed) ==
  IF i > Len(cs) THEN [cs |-> cs, removed |-> removed]
  ELSE IF is_closed(cs[i])
    THEN LET moved == IF i < Len(cs) THEN [cs EXCEPT ![i] = cs[Len(cs)]] ELSE cs
         IN RemoveLoop(SubSeq(moved, 1, Len(cs) - 1), i, removed + 1)
  ELSE RemoveLoop(cs, i + 1, removed)

\* Server::remove_closed_connections.
remove_closed_connections(cs) == RemoveLoop(cs, 1, 0)

\* The server after construction and Server::set_max_connections(limit) for
\* a limit in limits.
ServerIdle(limits) ==
  /\ conns = <<>>
  /\ is_running = FALSE
  /\ max_connections \in limits
  /\ next_conn_id = 1
  /\ active_connections = 0
  /\ rejected_connections = 0
  /\ handshake_errors = 0
  /\ buffer_overflows = 0
  /\ pc = "idle"
  /\ nfds = 0
  /\ io_i = 0
  /\ stop_in_run = FALSE
  /\ lost_stop = FALSE
  /\ op = NoOp
  /\ api_calls = 0
  /\ pending = 0

\* No call on rb yet.
NoRingOp == [name |-> "none", pre |-> NewRing, data |-> <<>>, len |-> 0, ret |-> FALSE]

\* The ring buffer as constructed.
RingIdle == rb = NewRing /\ rb_fifo = <<>> /\ rb_op = NoRingOp

\* A request on the listening socket of a server with size connections in
\* its container, active of them counted and the admission limit limit.
AdmInput(active, size, limit) ==
  [active |-> active, size |-> size, limit |-> limit, done |-> FALSE, verdict |-> "none"]

\* No request looked at.
AdmIdle == adm = AdmInput(0, 0, 1)

\* ObjectPool::reset (and the constructor): every slot free, free_list_[i] = i.
ObjectPool_reset ==
  [free_list |-> [i \in 0..(PoolSlots - 1) |-> i],
   slot_active |-> [i \in 0..(PoolSlots - 1) |-> FALSE],
   free_count |-> PoolSlots]

\* The indices handed out by acquire and not given back: unreleased counts
\* release alone as giving back, live counts reset as well.
NoneHeld == [unreleased |-> {}, live |-> {}]

\* No call on pool yet.
NoPoolOp == [name |-> "none", pre |-> ObjectPool_reset, held |-> NoneHeld,
             idx |-> -1, ret |-> -1]

\* The pool as constructed.
PoolIdle == pool = ObjectPool_reset /\ pool_held = NoneHeld /\ pool_op = NoPoolOp

\* The result slot of fh before the parse.
NoHeader == [size |-> 0, fin |-> FALSE, opcode |-> 0, masked |-> FALSE,
             payload_len |-> U64(0)]

\* A byte string handed to parse_frame_header, not parsed yet.
HeaderInput(data, char_signed) ==
  [data |-> data, char_signed |-> char_signed, done |-> FALSE,
   header |-> NoHeader, utils_header |-> NoHeader,
   redone |-> FALSE, reencoded |-> <<>>]

\* The arguments of encode_frame_header, nothing encoded yet.
EncodeInput(opcode, payload_len, mask) ==
  [opcode |-> opcode, payload_len |-> payload_len, mask |-> mask,
   done |-> FALSE, bytes |-> <<>>, header |-> NoHeader]

\* A connection about to run its read or data handler; pre is the
\* connection before the last call and ret what the call returned.
UnitInput(c) == [c |-> c, pre |-> c, done |-> FALSE, ret |-> TRUE]

\* No header parser, encoder or single connection under test.
CodecIdle ==
  /\ fh = HeaderInput(<<>>, FALSE)
  /\ rt = EncodeInput(0, U64(0), FALSE)
  /\ cx = UnitInput(NewConnection(0))

\* The server as constructed, max_connections set to one of limits.
InitLimit(limits) ==
  /\ ServerIdle(limits)
  /\ RingIdle
  /\ AdmIdle
  /\ PoolIdle
  /\ CodecIdle

\* A server that admits one connection at a time.
Init == InitLimit({1})

\* A server with any admission limit up to one past the container capacity.
InitAdm == InitLimit(1..(MaxConns + 1))

\* A thread calls Server::run.
RunCall ==
  /\ pc = "idle"
  /\ pc' = "entry"
  /\ op' = NoOp
  /\ UNCHANGED <<api_calls, pending>>
  /\ UNCHANGED unit_vars
  /\ UNCHANGED error_counters
  /\ UNCHANGED <<conns, is_running, max_connections, next_conn_id,
                 active_connections, rejected_connections, nfds, io_i,
                 stop_in_run, lost_stop>>

\* Server::run: is_running_ = true; stats_.reset().
RunStart ==
  /\ pc = "entry"
  /\ is_running' = TRUE
  /\ active_connections' = 0
  /\ rejected_connections' = 0
  /\ handshake_errors' = 0
  /\ buffer_overflows' = 0
  /\ pc' = "check"
  /\ op' = NoOp
  /\ UNCHANGED <<api_calls, pending>>
  /\ UNCHANGED unit_vars
  /\ UNCHANGED <<conns, max_connections, next_conn_id, nfds, io_i,
                 stop_in_run, lost_stop>>

\* Server::stop, from any thread.
Stop ==
  /\ is_running' = FALSE
  /\ stop_in_run' = (stop_in_run \/ pc \notin {"idle", "returned"})
  /\ UNCHANGED <<conns, max_connections, next_conn_id, active_connections,
                 rejected_connections, pc, nfds, io_i, lost_stop, op, api_calls,
                 pending>>
  /\ UNCHANGED unit_vars
  /\ UNCHANGED error_counters

\* while (is_running_) and the construction of the poll set.
LoopCheck ==
  /\ pc = "check"
  /\ IF is_running
     THEN /\ pc' = "poll"
          /\ nfds' = Len(conns) + 1
          /\ lost_stop' = (lost_stop \/ stop_in_run)
     ELSE /\ pc' = "returned"
          /\ UNCHANGED <<nfds, lost_stop>>
  /\ op' = NoOp
  /\ UNCHANGED <<api_calls, pending>>
  /\ UNCHANGED unit_vars
  /\ UNCHANGED error_counters
  /\ UNCHANGED <<conns, is_running, max_connections, next_conn_id,
                 active_connections, rejected_connections, io_i, stop_in_run>>

\* The overload test of Server::run, then connections_.size() >=
\* max_connections_ || connections_.full() of accept_connection, for a
\* container of size connections and the given capacity.
AdmissionIn(active, size, limit, capacity) ==
  IF is_overloaded(active, limit) THEN "overloaded"
  ELSE IF size >= limit \/ size >= capacity THEN "full"
  ELSE "admit"

\* Admission that lets every pending connection in.
Admission_open(active, cs, limit) == "admit"

\* What becomes of a pending connection: the overload test of Server::run,
\* then the first test of Server::accept_connection.
Admission(active, cs, limit) == AdmissionIn(active, Len(cs), limit, MaxConns)

\* A connection request may reach the listen backlog while the thread
\* waits in ::poll (arrive), and a waiting peer may give up (PeerGaveUp).
\* A request is only offered while the run can still record its outcome.
CanArrive(env) ==
  IF Admission(active_connections, conns, max_connections) = "admit"
  THEN next_conn_id <= Min(MaxIds, env.accepts)
  ELSE rejected_connections < Min(MaxRejects, env.rejects)

\* ::poll returns: ret < 0 ends the loop, ret == 0 goes back to the loop
\* test, ret > 0 goes on to the handlers.  dt clock ticks have passed.
\* The listening socket is level-triggered: with a request in the backlog
\* ::poll does not time out.
Poll(env) ==
  /\ pc = "poll"
  /\ \E ret \in {-1, 0, 1}, dt \in env.dts, backlog \in 0..MaxPending :
       /\ backlog \in {0, pending, pending + 1}
       /\ backlog > 0 => CanArrive(env)
       /\ ret = 0 => backlog = 0
       /\ pending' = backlog
       /\ conns' = IF dt = 1 THEN [i \in 1..Len(conns) |-> Tick(conns[i])] ELSE conns
       /\ pc' = IF ret < 0 THEN "returned" ELSE IF ret = 0 THEN "check" ELSE "accept"
  /\ op' = NoOp
  /\ UNCHANGED api_calls
  /\ UNCHANGED unit_vars
  /\ UNCHANGED error_counters
  /\ UNCHANGED <<is_running, max_connections, next_conn_id, active_connections,
                 rejected_connections, nfds, io_i, stop_in_run, lost_stop>>

\* Where the iteration goes after the listening socket has been served.
AfterAccept == IF nfds > 1 THEN "io_read" ELSE "timeouts"

\* The listening slot: overload rejection or Server::accept_connection.
\* Slot 0 reports POLLIN while the backlog is not empty; got is whether
\* accept() returned a socket (the peer may have reset the request, which
\* removes it from the backlog all the same).  The overload branch calls
\* accept() and closes what it gets; the capacity branch of
\* accept_connection returns before it calls accept().
AcceptPhase(env) ==
  /\ pc = "accept"
  /\ \E got \in BOOLEAN :
       LET verdict == Admission(active_connections, conns, max_connections) IN
       IF pending = 0
       THEN UNCHANGED <<conns, next_conn_id, active_connections,
                        rejected_connections, pending>>
       ELSE IF verdict = "overloaded"
         THEN /\ rejected_connections' = rejected_connections + 1
              /\ pending' = pending - 1
              /\ UNCHANGED <<conns, next_conn_id, active_connections>>
       ELSE IF verdict = "full"
         THEN /\ rejected_connections' = rejected_connections + 1
              /\ UNCHANGED <<conns, next_conn_id, active_connections, pending>>
       ELSE IF ~got
         THEN /\ pending' = pending - 1
              /\ UNCHANGED <<conns, next_conn_id, active_connections,
                             rejected_connections>>
       ELSE /\ conns' = Append(conns, [NewConnection(next_conn_id)
                                         EXCEPT !.trace = env.trace,
                                                !.watch = env.watch])
            /\ next_conn_id' = next_conn_id + 1
            /\ active_connections' = active_connections + 1
            /\ pending' = pending - 1
            /\ UNCHANGED rejected_connections
  /\ io_i' = 1
  /\ pc' = AfterAccept
  /\ op' = NoOp
  /\ UNCHANGED api_calls
  /\ UNCHANGED unit_vars
  /\ UNCHANGED error_counters
  /\ UNCHANGED <<is_running, max_connections, nfds, stop_in_run, lost_stop>>

\* The record of a failed read or write of c.
Failed(c) == [c EXCEPT !.io_failed = c.watch]

\* Server::handle_connection_io, POLLIN part, for connections_[io_i - 1].
OnReadable(env) ==
  /\ pc = "io_read"
  /\ \/ UNCHANGED conns
     \/ \E r \in Reactions, rd \in ReadOutcomes(conns[io_i], Msgs(env, conns[io_i])) :
          LET res == handle_read(conns[io_i], rd, r)
              c == IF res.ok THEN res.c
                   ELSE close(Failed(res.c), kDefaultCloseCode, r)
          IN /\ conns' = [conns EXCEPT ![io_i] = c]
             /\ Bounded(conns')
  /\ pc' = "io_write"
  /\ op' = NoOp
  /\ UNCHANGED <<api_calls, pending>>
  /\ UNCHANGED unit_vars
  /\ UNCHANGED error_counters
  /\ UNCHANGED <<is_running, max_connections, next_conn_id, active_connections,
                 rejected_connections, nfds, io_i, stop_in_run, lost_stop>>

\* Server::handle_connection_io, POLLOUT part (use_writev_ is the default).
OnWritable ==
  /\ pc = "io_write"
  /\ \/ UNCHANGED conns
     \/ \E r \in Reactions, wr \in WriteOutcomes(conns[io_i]) :
          LET res == handle_write_vectored(conns[io_i], wr)
              c == IF res.ok THEN res.c
                   ELSE close(Failed(res.c), kDefaultCloseCode, r)
          IN /\ conns' = [conns EXCEPT ![io_i] = c]
             /\ Bounded(conns')
  /\ pc' = "io_err"
  /\ op' = NoOp
  /\ UNCHANGED <<api_calls, pending>>
  /\ UNCHANGED unit_vars
  /\ UNCHANGED error_counters
  /\ UNCHANGED <<is_running, max_connections, next_conn_id, active_connections,
                 rejected_connections, nfds, io_i, stop_in_run, lost_stop>>

\* Server::handle_connection_io, POLLERR | POLLHUP part, and the step of
\* the client I/O loop.
OnErrHup ==
  /\ pc = "io_err"
  /\ \/ UNCHANGED conns
     \/ \E r \in Reactions :
          /\ conns' = [conns EXCEPT ![io_i] = close(@, kDefaultCloseCode, r)]
          /\ Bounded(conns')
  /\ io_i' = io_i + 1
  /\ pc' = IF io_i + 1 < nfds /\ io_i + 1 <= Len(conns) THEN "io_read" ELSE "timeouts"
  /\ op' = NoOp
  /\ UNCHANGED <<api_calls, pending>>
  /\ UNCHANGED unit_vars
  /\ UNCHANGED error_counters
  /\ UNCHANGED <<is_running, max_connections, next_conn_id, active_connections,
                 rejected_connections, nfds, stop_in_run, lost_stop>>

\* The timeout loop of Server::run.
EnforceTimeouts ==
  /\ pc = "timeouts"
  /\ \E r \in Reactions :
       /\ conns' = [i \in 1..Len(conns) |->
                      IF is_handshake_timed_out(conns[i]) \/ is_close_timed_out(conns[i])
                      THEN close(conns[i], kDefaultCloseCode, r) ELSE conns[i]]
       /\ Bounded(conns')
  /\ pc' = "sweep"
  /\ op' = NoOp
  /\ UNCHANGED <<api_calls, pending>>
  /\ UNCHANGED unit_vars
  /\ UNCHANGED error_counters
  /\ UNCHANGED <<is_running, max_connections, next_conn_id, active_connections,
                 rejected_connections, nfds, io_i, stop_in_run, lost_stop>>

\* Server::remove_closed_connections at the end of the iteration.
Sweep ==
  /\ pc = "sweep"
  /\ LET res == remove_closed_connections(conns)
     IN /\ conns' = res.cs
        /\ active_connections' = active_connections - res.removed
  /\ pc' = "check"
  /\ op' = NoOp
  /\ UNCHANGED <<api_calls, pending>>
  /\ UNCHANGED unit_vars
  /\ UNCHANGED error_counters
  /\ UNCHANGED <<is_running, max_connections, next_conn_id, rejected_connections,
                 nfds, io_i, stop_in_run, lost_stop>>

\* A user handler running on the reactor thread calls send / send_binary on
\* a connection it holds (its own or, as a broadcast does, another one).
AppSend ==
  /\ pc = "io_read"
  /\ api_calls < MaxApi
  /\ api_calls' = api_calls + 1
  /\ UNCHANGED pending
  /\ UNCHANGED unit_vars
  /\ UNCHANGED error_counters
  /\ \E i \in 1..Len(conns), a \in SendArgs :
       /\ conns' = [conns EXCEPT ![i] = send_impl(@, a.payload, a.binary)]
       /\ Bounded(conns')
       /\ op' = [name |-> "send", idx |-> i, pre |-> conns[i],
                 payload |-> a.payload, binary |-> a.binary]
  /\ UNCHANGED <<is_running, max_connections, next_conn_id, active_connections,
                 rejected_connections, pc, nfds, io_i, stop_in_run, lost_stop>>

\* A user handler calls close on a connection it holds.
AppClose ==
  /\ pc = "io_read"
  /\ api_calls < MaxApi
  /\ api_calls' = api_calls + 1
  /\ UNCHANGED pending
  /\ UNCHANGED unit_vars
  /\ UNCHANGED error_counters
  /\ \E i \in 1..Len(conns), r \in Reactions :
       /\ conns' = [conns EXCEPT ![i] = close([@ EXCEPT !.app_closed = TRUE],
                                              kDefaultCloseCode, r)]
       /\ Bounded(conns')
       /\ op' = [name |-> "close", idx |-> i, pre |-> conns[i],
                 payload |-> <<>>, binary |-> FALSE]
  /\ UNCHANGED <<is_running, max_connections, next_conn_id, active_connections,
                 rejected_connections, pc, nfds, io_i, stop_in_run, lost_stop>>

\* The steps of the thread that executes Server::run.
Reactor(env) ==
  \/ RunStart \/ LoopCheck \/ Poll(env) \/ AcceptPhase(env) \/ OnReadable(env)
  \/ OnWritable \/ OnErrHup \/ EnforceTimeouts \/ Sweep

\* The data path: every kind of peer input, nobody calls stop().
Next == RunCall \/ Reactor(FullEnv) \/ AppSend \/ AppClose

Spec == Init /\ [][Next]_vars

\* The loop control: the clock runs and stop() is called at any moment.
NextTimed == RunCall \/ Stop \/ Reactor(TimedEnv) \/ AppClose

SpecTimed == Init /\ [][NextTimed]_vars

\* The byte streams: what is read, delivered, queued and written.
NextTraced == RunCall \/ Reactor(TracedEnv) \/ AppSend \/ AppClose

SpecTraced == Init /\ [][NextTraced]_vars

\* Admission: any limit, peers that only connect and disconnect.
NextAdm == RunCall \/ Reactor(SilentEnv)

SpecAdm == InitAdm /\ [][NextAdm]_vars

\* A peer that opens a connection and then sends a close frame, with a
\* text frame before it or behind it, while the application may call close.
FrameCloseThenText == FrameClose \o FrameText
ClosingEnv == [hs |-> {ReqValid},
               fr |-> {FrameText \o FrameClose, FrameCloseThenText},
               dts |-> {0}, trace |-> TRUE, watch |-> TRUE, accepts |-> 1, rejects |-> 1]

NextClosing == RunCall \/ Reactor(ClosingEnv) \/ AppClose

SpecClosing == Init /\ [][NextClosing]_vars

\* The thread in run() keeps running: no step of the loop waits forever
\* (poll has a finite timeout, every handler is non-blocking).
FairSpecTimed == SpecTimed /\ WF_vars(Reactor(TimedEnv))

\* ------------------------------------------------ the ring buffer alone
\* The slots of the iovec array of handle_read and handle_write_vectored.
IovSlots == 2

\* The elements stored, and the arrays handed to push or placed by ::readv.
RingBytes == {1, 2}
RingData == UNION {[1..n -> RingBytes] : n \in 0..(RingCap + 1)}

\* What a call on rb did.
RingOp(name, data, len, ret) ==
  [name |-> name, pre |-> rb, data |-> data, len |-> len, ret |-> ret]

\* push(data, len).
RingPush ==
  /\ \E data \in RingData :
       LET o == RingBuffer_push(rb, data)
       IN /\ rb' = o.rb
          /\ rb_fifo' = IF o.ret THEN rb_fifo \o data ELSE rb_fifo
          /\ rb_op' = RingOp("push", data, Len(data), o.ret)
  /\ UNCHANGED <<server_vars, adm, pool_vars, fh, rt, cx>>

\* advance(len).
RingAdvance ==
  /\ \E len \in 0..(RingCap + 1) :
       /\ rb' = RingBuffer_advance(rb, len)
       /\ rb_fifo' = Drop(rb_fifo, len)
       /\ rb_op' = RingOp("advance", <<>>, len, TRUE)
  /\ UNCHANGED <<server_vars, adm, pool_vars, fh, rt, cx>>

\* fill_iovec_write, data placed through the slices as ::readv does, then
\* commit_write(len); a len beyond the free room commits the free room.
RingReceive ==
  /\ \E len \in 0..(RingCap + 1), data \in RingData :
       LET slices == RingBuffer_fill_iovec_write(rb, IovSlots)
       IN /\ Len(data) = Min(len, Len(SliceIndices(slices)))
          /\ rb' = RingBuffer_commit_write(Scatter(rb, slices, data), len)
          /\ rb_fifo' = rb_fifo \o data
          /\ rb_op' = RingOp("commit_write", data, len, TRUE)
  /\ UNCHANGED <<server_vars, adm, pool_vars, fh, rt, cx>>

\* clear().
RingClear ==
  /\ rb' = RingBuffer_clear(rb)
  /\ rb_fifo' = <<>>
  /\ rb_op' = RingOp("clear", <<>>, 0, TRUE)
  /\ UNCHANGED <<server_vars, adm, pool_vars, fh, rt, cx>>

NextRing == RingPush \/ RingAdvance \/ RingReceive \/ RingClear

SpecRing == Init /\ [][NextRing]_vars

\* ---------------------------------------------- the header parser alone
\* First octets: FIN + text, binary without FIN, FIN + ping.
HeaderFirst == {129, 2, 137}

\* Octets at the edges of the signed and unsigned ranges.
EdgeLow == {0, 1}
EdgeHigh == {128, 255}

\* Extended lengths: every pair of edge octets for the 16-bit form; for the
\* 64-bit form every placement of a high octet among low ones.
Ext16 == {<<x, y>> : x \in EdgeLow \cup EdgeHigh \cup {127}, y \in EdgeLow \cup EdgeHigh \cup {127}}
Ext64 == {[i \in 1..8 |-> IF i \in S THEN hi ELSE lo] :
            S \in SUBSET (1..8), hi \in EdgeHigh, lo \in EdgeLow}

\* A frame start: the two fixed octets (every value of the second), the
\* extension its length form asks for, four octets that are the mask key
\* when the mask bit is set, and one more.
ExtFor(b1) ==
  IF b1 % 128 = 126 THEN Ext16 ELSE IF b1 % 128 = 127 THEN Ext64 ELSE {<<>>}
FrameStarts ==
  UNION {{<<b0, b1>> \o ext \o <<1, 2, 3, 4, 5>> : b0 \in HeaderFirst, ext \in ExtFor(b1)} :
           b1 \in 0..255}

\* Every prefix of a frame start, on a build with signed or unsigned char.
InitHdr ==
  /\ ServerIdle({1})
  /\ RingIdle
  /\ AdmIdle
  /\ PoolIdle
  /\ \E full \in FrameStarts, k \in 0..15, char_signed \in BOOLEAN :
       /\ k <= Len(full)
       /\ fh = HeaderInput(Take(full, k), char_signed)
  /\ rt = EncodeInput(0, U64(0), FALSE)
  /\ cx = UnitInput(NewConnection(0))

\* The call of both parsers on the input.
ParseHeader ==
  /\ ~fh.done
  /\ fh' = [fh EXCEPT !.done = TRUE,
                      !.header = parse_frame_header(fh.data),
                      !.utils_header = utils_parse_frame_header(fh.data, fh.char_signed)]
  /\ UNCHANGED <<server_vars, adm, pool_vars, rb, rb_fifo, rb_op, rt, cx>>

\* A header that was parsed is encoded again, unmasked, with the opcode
\* and the payload length the parser reported.
Reencode ==
  /\ fh.done /\ ~fh.redone
  /\ fh.header.size # 0
  /\ fh' = [fh EXCEPT !.redone = TRUE,
                      !.reencoded = encode_frame_header(fh.header.opcode,
                                                        fh.header.payload_len, FALSE)]
  /\ UNCHANGED <<server_vars, adm, pool_vars, rb, rb_fifo, rb_op, rt, cx>>

NextHdr == ParseHeader \/ Reencode

SpecHdr == InitHdr /\ [][NextHdr]_vars

\* ------------------------------------------- encoding, then parsing back
\* OpCode.
OpCodes == {OpContinuation, OpText, OpBinary, OpClose, OpPing, OpPong}

\* Payload lengths around the borders of the three length forms, and some
\* that need all 64 bits.
EdgeLens == {0, 1, 125, 126, 127, 255, 256, 65535, 65536, 65537, 16777216, 2147483647}
WideLens == {<<0, 0, 0, 1, 0, 0, 0, 0>>, <<128, 0, 0, 0, 0, 0, 0, 0>>,
             <<1, 2, 3, 4, 5, 6, 7, 8>>, <<255, 255, 255, 255, 255, 255, 255, 255>>}
EncodeLens == {SizeT(n) : n \in EdgeLens} \cup WideLens

InitCodec ==
  /\ ServerIdle({1})
  /\ RingIdle
  /\ AdmIdle
  /\ PoolIdle
  /\ fh = HeaderInput(<<>>, FALSE)
  /\ cx = UnitInput(NewConnection(0))
  /\ \E opcode \in OpCodes, len \in EncodeLens, mask \in BOOLEAN :
       rt = EncodeInput(opcode, len, mask)

\* encode_frame_header, then parse_frame_header on the bytes it wrote.
EncodeThenParse ==
  /\ ~rt.done
  /\ LET bytes == encode_frame_header(rt.opcode, rt.payload_len, rt.mask)
     IN rt' = [rt EXCEPT !.done = TRUE, !.bytes = bytes,
                         !.header = parse_frame_header(bytes)]
  /\ UNCHANGED <<server_vars, adm, pool_vars, rb, rb_fifo, rb_op, fh, cx>>

NextCodec == EncodeThenParse

SpecCodec == InitCodec /\ [][NextCodec]_vars

\* ------------------------------------- parse_frames on one Open connection
\* The RX ring and the snapshot array of the connection driven on its own,
\* wide enough for a header in the 64-bit form with its mask key.
UnitWindow == 16

\* The text frames the application has queued that are not written yet.
MaxBacklog == 2

RECURSIVE QueueTexts(_, _)
\* k text frames queued by write_frame.
QueueTexts(c, k) ==
  IF k = 0 THEN c ELSE QueueTexts(write_frame(c, Greeting, OpText), k - 1)

\* A connection as the handshake leaves it, the response sent, k text
\* frames waiting in TX, rx received.
OpenConnection(rx, k) ==
  LET fresh == [NewConnection(1) EXCEPT !.rx = ReqValid, !.trace = TRUE]
      opened == handshake_on_data(fresh, "none").c
      sent == [opened EXCEPT !.tx = <<>>, !.out = opened.tx]
  IN [QueueTexts(sent, k) EXCEPT !.rx = rx, !.rx_hist = rx]

\* Header octets in a chosen length form (0, 2 or 8 extension octets).
HeaderOctets(opcode, masked, ext) ==
  <<128 + opcode,
    (IF masked THEN 128 ELSE 0)
      + (IF Len(ext) = 0 THEN 1 ELSE IF Len(ext) = 2 THEN 126 ELSE 127)>>
  \o ext \o (IF masked THEN <<1, 2, 3, 4>> ELSE <<>>)

\* Declared lengths: 1 in the short form; 2 and 256 in the 16-bit form; in
\* the 64-bit form 1, 2^32, 2^63 and the lengths whose sum with the header
\* size passes 2^64.
DeclaredExt ==
  {<<>>, <<0, 2>>, <<1, 0>>,
   <<0, 0, 0, 0, 0, 0, 0, 1>>, <<0, 0, 0, 1, 0, 0, 0, 0>>, <<128, 0, 0, 0, 0, 0, 0, 0>>,
   <<255, 255, 255, 255, 255, 255, 255, 255>>, <<255, 255, 255, 255, 255, 255, 255, 246>>,
   <<255, 255, 255, 255, 255, 255, 255, 242>>}

\* What the peer has sent: one header and up to two octets after it.  A
\* ping is not given a length of the 64-bit form.
FrameInputs ==
  {HeaderOctets(opcode, masked, ext) \o rest :
     opcode \in {OpText, OpBinary, OpClose, OpPong}, masked \in BOOLEAN,
     ext \in DeclaredExt, rest \in {<<>>, <<97>>, <<97, 98>>}}
  \cup
  {HeaderOctets(OpPing, masked, ext) \o rest :
     masked \in BOOLEAN, ext \in {<<>>, <<0, 2>>, <<1, 0>>},
     rest \in {<<>>, <<97>>, <<97, 98>>}}

InitFrames ==
  /\ ServerIdle({1})
  /\ RingIdle
  /\ AdmIdle
  /\ PoolIdle
  /\ fh = HeaderInput(<<>>, FALSE)
  /\ rt = EncodeInput(0, U64(0), FALSE)
  /\ \E rx \in FrameInputs, k \in 0..MaxBacklog : cx = UnitInput(OpenConnection(rx, k))

\* Connection::parse_frames on the connection, its handler reacting with r.
ParseFrames ==
  /\ ~cx.done
  /\ \E r \in Reactions :
       cx' = [cx EXCEPT !.done = TRUE, !.c = parse_frames_in(cx.c, r, UnitWindow)]
  /\ UNCHANGED <<server_vars, adm, pool_vars, rb, rb_fifo, rb_op, fh, rt>>

NextFrames == ParseFrames

SpecFrames == InitFrames /\ [][NextFrames]_vars

\* ---------------------------------------------- the ObjectPool on its own
\* ObjectPool::acquire: the pool afterwards and the index returned.
ObjectPool_acquire(p) ==
  IF p.free_count = 0 THEN [pool |-> p, ret |-> -1]
  ELSE LET idx == p.free_list[p.free_count - 1]
       IN [pool |-> [p EXCEPT !.free_count = @ - 1, !.slot_active[idx] = TRUE],
           ret |-> idx]

\* release without the test of slot_active_.
ObjectPool_release_unchecked(p, idx) ==
  IF idx < 0 \/ idx >= PoolSlots THEN p
  ELSE IF p.free_count >= PoolSlots THEN [p EXCEPT !.slot_active[idx] = FALSE]
  ELSE [p EXCEPT !.slot_active[idx] = FALSE,
                 !.free_list[p.free_count] = idx,
                 !.free_count = @ + 1]

\* ObjectPool::release.
ObjectPool_release(p, idx) ==
  IF idx < 0 \/ idx >= PoolSlots THEN p
  ELSE IF ~p.slot_active[idx] THEN p
  ELSE [p EXCEPT !.slot_active[idx] = FALSE,
                 !.free_list[p.free_count] = idx,
                 !.free_count = @ + 1]

\* ObjectPool::available, in_use and is_active.
ObjectPool_available(p) == p.free_count
ObjectPool_in_use(p) == PoolSlots - p.free_count
ObjectPool_is_active(p, idx) == idx >= 0 /\ idx < PoolSlots /\ p.slot_active[idx]

\* The indices a caller passes to release: every slot, and one below and
\* one above the range.
ReleaseArgs == (-1)..PoolSlots

PoolAcquire ==
  /\ LET res == ObjectPool_acquire(pool)
     IN /\ pool' = res.pool
        /\ pool_held' = IF res.ret < 0 THEN pool_held
                        ELSE [unreleased |-> pool_held.unreleased \cup {res.ret},
                              live |-> pool_held.live \cup {res.ret}]
        /\ pool_op' = [name |-> "acquire", pre |-> pool, held |-> pool_held,
                       idx |-> -1, ret |-> res.ret]
  /\ UNCHANGED <<server_vars, rb, rb_fifo, rb_op, fh, rt, cx, adm>>

PoolRelease ==
  /\ \E idx \in ReleaseArgs :
       /\ pool' = ObjectPool_release(pool, idx)
       /\ pool_held' = [unreleased |-> pool_held.unreleased \ {idx},
                        live |-> pool_held.live \ {idx}]
       /\ pool_op' = [name |-> "release", pre |-> pool, held |-> pool_held,
                      idx |-> idx, ret |-> -1]
  /\ UNCHANGED <<server_vars, rb, rb_fifo, rb_op, fh, rt, cx, adm>>

PoolReset ==
  /\ pool' = ObjectPool_reset
  /\ pool_held' = [pool_held EXCEPT !.live = {}]
  /\ pool_op' = [name |-> "reset", pre |-> pool, held |-> pool_held,
                 idx |-> -1, ret |-> -1]
  /\ UNCHANGED <<server_vars, rb, rb_fifo, rb_op, fh, rt, cx, adm>>

NextPool == PoolAcquire \/ PoolRelease \/ PoolReset

SpecPool == Init /\ [][NextPool]_vars

\* ------------------------------------------ the admission test on its own
\* Server::kMaxConnections, the capacity of the connection container.
kMaxConnections == 64

\* The admission limits set_max_connections is given: every small one, and
\* the capacity of the container and beyond.
AdmLimits == (1..MaxLimit) \cup {kMaxConnections, kMaxConnections + 1, kMaxConnections + 8}

\* A request arrives at a server that holds size connections, all counted
\* in active_connections, within its limit and its capacity.
InitAdmit ==
  /\ ServerIdle({1})
  /\ RingIdle
  /\ PoolIdle
  /\ CodecIdle
  /\ \E limit \in AdmLimits, size \in 0..kMaxConnections :
       /\ size <= limit
       /\ adm = AdmInput(size, size, limit)

\* The listening slot is served: the verdict on the request.
Admit ==
  /\ ~adm.done
  /\ adm' = [adm EXCEPT !.done = TRUE,
                        !.verdict = AdmissionIn(adm.active, adm.size, adm.limit,
                                                kMaxConnections)]
  /\ UNCHANGED <<server_vars, rb, rb_fifo, rb_op, fh, rt, cx, pool_vars>>

NextAdmit == Admit

SpecAdmit == InitAdmit /\ [][NextAdmit]_vars

\* ------------------------------- the handshake on one accepted connection
\* What a client sends on a fresh connection, delivered by the kernel in
\* pieces of any size.
HsRequests ==
  {ReqValid, ReqLowerKey, ReqLong, ReqValid \o FrameEmptyText,
   ReqBadMethod, ReqNoKey, ReqEmptyKey}

InitHs ==
  /\ ServerIdle({1})
  /\ RingIdle
  /\ AdmIdle
  /\ PoolIdle
  /\ fh = HeaderInput(<<>>, FALSE)
  /\ rt = EncodeInput(0, U64(0), FALSE)
  /\ \E w \in HsRequests :
       cx = UnitInput([NewConnection(1) EXCEPT !.wire = w, !.trace = TRUE])

\* Connection::handle_read on the connection: readv gives the next n
\* octets the peer sent, the handlers react with r.
HsRead ==
  /\ cx.c.wire # <<>>
  /\ cx.c.sock
  /\ \E r \in Reactions, n \in 1..Len(cx.c.wire) :
       /\ n <= RxCap - Len(cx.c.rx)
       /\ LET rd == [kind |-> "data", bytes |-> Take(cx.c.wire, n),
                     rest |-> Drop(cx.c.wire, n), sent |-> 1]
              res == handle_read(cx.c, rd, r)
          IN cx' = [c |-> res.c, pre |-> cx.c, done |-> TRUE, ret |-> res.ok]
  /\ UNCHANGED <<server_vars, adm, pool_vars, rb, rb_fifo, rb_op, fh, rt>>

NextHs == HsRead

SpecHs == InitHs /\ [][NextHs]_vars

\* ------------------------------------------------------------------ claims
\* The number of times the callback cb was invoked on connection c.
Count(c, cb) == Cardinality({k \in 1..Len(c.cbs) : c.cbs[k] = cb})

\* The number of on_close invocations, whatever the flag.
NumClose(c) == Count(c, "close_clean") + Count(c, "close_unclean")

\* C1: on_close is invoked exactly once over a connection's lifetime,
\* whichever path takes it to Closed: never more than once, and once when
\* the connection is Closed.
C1_OnCloseExactlyOnce ==
  \A i \in 1..Len(conns) :
    /\ NumClose(conns[i]) <= 1
    /\ conns[i].state = "Closed" => NumClose(conns[i]) = 1

\* C2: when the peer's close frame is observed on an Open connection every
\* on_close of that connection carries clean=false, and on_close(clean=true)
\* is delivered only to a connection the application has called close() on.
C2_CleanFlagTellsInitiator ==
  \A i \in 1..Len(conns) :
    /\ Count(conns[i], "close_unclean") > 0 => Count(conns[i], "close_clean") = 0
    /\ Count(conns[i], "close_clean") > 0 => conns[i].app_closed

\* Whether the frame of the send recorded in o fits in the room TX had.
SendFits(o) ==
  Len(encode_frame_header(IF o.binary THEN OpBinary ELSE OpText,
                          SizeT(Len(o.payload)), FALSE))
    + Len(o.payload) <= TxCap - Len(o.pre.tx)

\* C3: a send / send_binary on an Open connection whose header plus payload
\* does not fit in TX leaves the content and size of TX as they were.
C3_SendThatDoesNotFitDropsWhole ==
  (op.name = "send" /\ op.pre.state = "Open" /\ ~SendFits(op))
    => conns[op.idx].tx = op.pre.tx

MalformedRequests == {ReqBadMethod, ReqNoKey, ReqEmptyKey}

\* C5: a Handshaking connection that has received a complete malformed
\* request is Closed and swept in the iteration that read it: when the loop
\* is back at its test no Handshaking connection holds such a request.
C5_MalformedRequestClosedAndSwept ==
  pc = "check" =>
    \A i \in 1..Len(conns) :
      ~(/\ conns[i].state = "Handshaking"
        /\ \E m \in MalformedRequests : Take(conns[i].rx, Len(m)) = m)

\* C6: a connection still Handshaking after the handshake deadline is closed
\* in the first iteration that follows the deadline, whatever poll returned:
\* no iteration that began past the deadline (the age was already over the
\* timeout before the tick of its poll) ends with the connection Handshaking.
C6_HandshakeDeadlineEnforcedNextIteration ==
  pc = "check" =>
    \A i \in 1..Len(conns) :
      ~(conns[i].state = "Handshaking" /\ conns[i].age > TimeoutTicks + 1)

\* C7: a connection that has been Closing for longer than the close timeout
\* is eventually Closed and removed from the container (or run() returns),
\* even if no socket ever becomes ready again.
C7_CloseTimeoutEventuallyRemoves ==
  \A id \in 1..MaxIds :
    (\E i \in 1..Len(conns) : conns[i].id = id /\ is_close_timed_out(conns[i]))
      ~> (pc = "returned" \/ ~\E i \in 1..Len(conns) : conns[i].id = id)

\* C8: a stop() called while a thread executes run() is never lost: the loop
\* begins no iteration after it.
C8_StopNeverLost == ~lost_stop

\* C9: send / send_binary on a connection that is Handshaking, Closing or
\* Closed changes nothing (TX, RX, state, write-paused flag, callbacks),
\* for every connection the server holds and for the call the application
\* has just made.
C9_SendOutsideOpenChangesNothing ==
  /\ \A i \in 1..Len(conns), a \in SendArgs :
       conns[i].state # "Open" => send_impl(conns[i], a.payload, a.binary) = conns[i]
  /\ (op.name = "send" /\ op.pre.state # "Open") => conns[op.idx] = op.pre

\* The application called send on a Closing connection with a TX backlog.
C9_Witness ==
  /\ op.name = "send"
  /\ op.pre.state = "Closing"
  /\ op.pre.tx # <<>>
  /\ op.pre.rx # <<>>

\* C10: on_open fires exactly once for a connection that reaches Open, when
\* the 101 response is at the tail of TX, before any on_message, and never
\* for a connection that has not completed the handshake.
C10_OnOpenOnceAtHandshake ==
  \A i \in 1..Len(conns) :
    LET c == conns[i]
    IN /\ Count(c, "open") <= 1
       /\ c.state \in {"Open", "Closing"} => Count(c, "open") = 1
       /\ Count(c, "open") = 1 <=> c.handshake_completed
       /\ Count(c, "open") = 1 =>
            /\ c.cbs[1] = "open"
            /\ Len(c.open_tx) >= 2
            /\ c.open_tx[Len(c.open_tx) - 1] = TokResp101
       /\ Count(c, "open") = 0 => c.cbs \in {<<>>, <<"close_clean">>}

\* A connection completed the handshake, on_open fired with the response
\* queued, and a message was then delivered.
C10_Witness ==
  \E i \in 1..Len(conns) :
    /\ Len(conns[i].cbs) >= 2
    /\ conns[i].cbs[1] = "open"
    /\ conns[i].cbs[2] = "message"
    /\ conns[i].open_tx = Response101(<<ChKey>>)

\* What follows the first complete upgrade request in a stream of units.
AfterRequest(h) ==
  LET e == Find(h, <<TokCRLF, TokCRLF>>, 1)
  IN IF e = 0 THEN <<>> ELSE Drop(h, e + 1)

\* The length of the frame (7-bit length form) at the head of s, 0 when s
\* does not hold the whole of it.
HeadFrameLen(s) ==
  IF Len(s) < 2 THEN 0
  ELSE LET total == (IF s[2] >= 128 THEN 6 ELSE 2) + (s[2] % 128)
       IN IF Len(s) < total THEN 0 ELSE total

RECURSIVE RefMessages(_)
\* The payloads of the complete text / binary frames of the stream s, in
\* stream order, up to its first close frame (RFC 6455 framing with 7-bit
\* lengths, written down without the server's codec).
RefMessages(s) ==
  LET total == HeadFrameLen(s)
  IN IF total = 0 \/ s[1] % 16 = 8 THEN <<>>
     ELSE LET masked == s[2] >= 128
              plen == s[2] % 128
              body == SubSeq(s, total - plen + 1, total)
              clear == IF masked
                       THEN [k \in 1..plen |-> Xor8(body[k], s[3 + ((k - 1) % 4)])]
                       ELSE body
          IN (IF s[1] % 16 \in {1, 2} THEN <<clear>> ELSE <<>>)
               \o RefMessages(Drop(s, total))

IsPrefix(a, b) == Len(a) <= Len(b) /\ a = SubSeq(b, 1, Len(a))

\* C11: on_message is invoked once per complete text / binary frame
\* received on an Open connection, with the frame's unmasked payload, in
\* arrival order: what was delivered is always a prefix of the messages of
\* the stream read after the handshake (nothing reordered, duplicated,
\* merged or altered), and when an iteration has ended every complete frame
\* an Open connection has received has been delivered (nothing skipped).
C11_MessagesInArrivalOrder ==
  \A i \in 1..Len(conns) :
    LET c == conns[i]
        expected == RefMessages(AfterRequest(c.rx_hist))
    IN /\ Len(c.delivered) = Count(c, "message")
       /\ c.handshake_completed => IsPrefix(c.delivered, expected)
       /\ ~c.handshake_completed => c.delivered = <<>>
       /\ (c.state = "Open" /\ HeadFrameLen(c.rx) = 0) => c.delivered = expected
       /\ (c.state = "Open" /\ pc = "check") => c.delivered = expected

\* C12: what a connection writes to its socket is what was queued in TX, in
\* queueing order: everything queued so far is what was written followed by
\* what TX still holds; the 101 response is queued first and once; no frame
\* of a send / send_binary is queued behind a close frame.
C12_WireIsTxInOrder ==
  \A i \in 1..Len(conns) :
    LET c == conns[i]
    IN /\ c.tx_hist = c.out \o c.tx
       /\ c.tx_log # <<>> =>
            /\ c.tx_log[1] = TokResp101
            /\ Take(c.tx_hist, 2) = Response101(<<ChKey>>)
       /\ \A k \in 2..Len(c.tx_log) : c.tx_log[k] # TokResp101
       /\ \A j, k \in 1..Len(c.tx_log) :
            (j < k /\ c.tx_log[j] = OpClose) => c.tx_log[k] \notin {OpText, OpBinary}

\* The response, a text frame and a close frame were queued in that order,
\* written in several writes, and all of it has gone out.
C12_Witness ==
  \E i \in 1..Len(conns) :
    /\ conns[i].tx_log = <<TokResp101, OpText, OpClose>>
    /\ conns[i].tx = <<>>
    /\ conns[i].out = Response101(<<ChKey>>) \o <<129, 1, 97>> \o <<136, 2, 3, 232>>
    /\ conns[i].state = "Closing"

\* C13: every operation that raises TX usage from at or below the high
\* watermark to above it sets write-paused (and fires on_backpressure): a
\* connection whose TX is above the high watermark is write-paused.
C13_AboveHighWatermarkIsPaused ==
  \A i \in 1..Len(conns) :
    Len(conns[i].tx) > kTxHighWatermark => conns[i].write_paused

RECURSIVE Watermarks(_)
\* The on_backpressure / on_drain invocations among the callbacks cbs.
Watermarks(cbs) ==
  IF cbs = <<>> THEN <<>>
  ELSE (IF Head(cbs) \in {"backpressure", "drain"} THEN <<Head(cbs)>> ELSE <<>>)
         \o Watermarks(Tail(cbs))

\* C14: on_backpressure and on_drain strictly alternate, beginning with
\* on_backpressure; the connection is write-paused exactly between an
\* on_backpressure and the next on_drain; and on_drain has fired as soon
\* as a write left a write-paused connection's TX below the low watermark.
C14_BackpressureDrainAlternate ==
  \A i \in 1..Len(conns) :
    LET w == Watermarks(conns[i].cbs)
    IN /\ \A k \in 1..Len(w) :
            w[k] = (IF k % 2 = 1 THEN "backpressure" ELSE "drain")
       /\ conns[i].write_paused <=> (Len(w) % 2 = 1)
       /\ conns[i].write_paused => Len(conns[i].tx) >= kTxLowWatermark

\* TX went above the high watermark, on_backpressure fired, and a write
\* then drained TX below the low watermark, which fired on_drain.
C14_Witness ==
  \E i \in 1..Len(conns) :
    /\ Watermarks(conns[i].cbs) = <<"backpressure", "drain">>
    /\ Len(conns[i].tx) < kTxLowWatermark
    /\ ~conns[i].write_paused

\* C15: while the reactor iterates, the connection container never holds
\* more connections than max_connections nor more than its capacity
\* MaxConns, the active count is the container's size, the poll set built
\* for an iteration has at most MaxConns + 1 entries, and the I/O loop only
\* indexes connections that exist.
C15_AdmissionKeepsLimits ==
  /\ Len(conns) <= max_connections
  /\ Len(conns) <= MaxConns
  /\ active_connections = Len(conns)
  /\ nfds <= MaxConns + 1
  /\ pc \in {"io_read", "io_write", "io_err"} =>
        (io_i >= 1 /\ io_i <= Len(conns) /\ io_i + 1 <= nfds)

\* A request was turned away while the container was at its limit, and the
\* limit was the configured one in one run and the capacity in another.
C15_Witness ==
  /\ rejected_connections > 0
  /\ Len(conns) = max_connections
  /\ max_connections >= 2
  /\ pc = "io_read"

\* C16: every rejection takes the request off the listening socket in the
\* same iteration: no iteration ends with a request still in the backlog,
\* so none is rejected a second time.
C16_RejectionDrainsBacklog == (pc \in {"check", "timeouts", "io_read"}) => pending = 0

\* C17: after any sequence of push, advance, commit_write and clear on a
\* ring buffer of capacity RingCap, size + available is the capacity, size
\* is at most the capacity, both indices lie in 0..RingCap-1, and
\* peek(size) returns the elements stored and not yet consumed, oldest
\* first, also when they wrap around the end of the array.
C17_RingIsBoundedFifo ==
  /\ RingBuffer_size(rb) + RingBuffer_available(rb) = RingCap
  /\ RingBuffer_size(rb) \in 0..RingCap
  /\ rb.read_idx_ \in 0..(RingCap - 1)
  /\ rb.write_idx_ \in 0..(RingCap - 1)
  /\ RingBuffer_peek(rb, RingBuffer_size(rb)) = rb_fifo

\* A full ring whose elements wrap around the end of the array and differ.
C17_Witness ==
  /\ rb.count_ = RingCap
  /\ rb.read_idx_ > 0
  /\ rb_fifo[1] # rb_fifo[RingCap]
  /\ rb_op.name \in {"push", "commit_write"}

\* C18: push returns true exactly when the free room is at least len, and a
\* push that returns false leaves indices, count and stored elements as
\* they were.
C18_PushIsAllOrNothing ==
  rb_op.name = "push" =>
    /\ rb_op.ret <=> (RingBuffer_available(rb_op.pre) >= rb_op.len)
    /\ ~rb_op.ret => rb = rb_op.pre

\* A push of one element more than the free room of a ring that is neither
\* empty nor full was refused.
C18_Witness ==
  /\ rb_op.name = "push"
  /\ ~rb_op.ret
  /\ rb_op.pre.count_ \in 1..(RingCap - 1)
  /\ rb_op.len = RingBuffer_available(rb_op.pre) + 1

\* The free positions of the array, from the write index on.
FreeIndices(r) ==
  [k \in 1..RingBuffer_available(r) |-> (r.write_idx_ + k - 1) % RingCap]

\* Every slice lies inside the array and is not empty.
SlicesInArray(slices) ==
  \A k \in 1..Len(slices) :
    slices[k].len > 0 /\ slices[k].base >= 0 /\ slices[k].base + slices[k].len <= RingCap

\* C19: in every reachable ring state the readable view (room for two
\* slices) has at most two non-empty slices which together are the size
\* stored elements oldest first, two slices exactly when the elements wrap
\* around the end of the array; the writable view has at most two
\* non-empty slices which together are the free positions from the write
\* index on.
C19_ViewsCoverExactly ==
  LET rd == RingBuffer_fill_iovec(rb, IovSlots)
      wr == RingBuffer_fill_iovec_write(rb, IovSlots)
  IN /\ Len(rd) <= 2
     /\ SlicesInArray(rd)
     /\ Gather(rb, rd) = rb_fifo
     /\ Len(rd) = 2 <=> rb.read_idx_ + rb.count_ > RingCap
     /\ Len(wr) <= 2
     /\ SlicesInArray(wr)
     /\ SliceIndices(wr) = FreeIndices(rb)

\* Differing elements wrap around the end of the array, after an advance
\* made room at the front.
C19_Witness ==
  /\ Len(RingBuffer_fill_iovec(rb, IovSlots)) = 2
  /\ Len(RingBuffer_fill_iovec_write(rb, IovSlots)) = 1
  /\ rb_fifo[1] # rb_fifo[Len(rb_fifo)]

\* The octets of the extended length a header asks for.
ExtLen(b1) == IF b1 % 128 = 126 THEN 2 ELSE IF b1 % 128 = 127 THEN 8 ELSE 0

\* What the header of data is: incomplete exactly when data is too short,
\* otherwise its length and fields.
HeaderConforms(data, h) ==
  LET n == Len(data)
      needed == IF n < 2 THEN 2
                ELSE 2 + ExtLen(data[2]) + (IF data[2] >= 128 THEN 4 ELSE 0)
  IN /\ h.size = 0 <=> n < needed
     /\ h.size # 0 =>
          /\ h.size = needed
          /\ h.fin = (data[1] >= 128)
          /\ h.opcode = data[1] % 16
          /\ h.masked = (data[2] >= 128)
          /\ CASE ExtLen(data[2]) = 0 ->
                    U64Small(h.payload_len) /\ U64Low(h.payload_len) = data[2] % 128
               [] ExtLen(data[2]) = 2 ->
                    U64Small(h.payload_len)
                    /\ U64Low(h.payload_len) = data[3] * 256 + data[4]
               [] OTHER -> \A k \in 1..8 : h.payload_len[k] = data[2 + k]

\* C20: parse_frame_header returns 0 exactly when fewer octets are there
\* than 2 + the extended length + 4 for a mask key; otherwise it returns
\* that length with fin, opcode, masked and the payload length as the
\* 7-bit value or the big-endian 16-bit / 64-bit extension, whatever the
\* length octets are.  Stated for the parser of ewss.hpp and for the one of
\* ewss/utils.hpp.
C20_HeaderParsedForEveryOctet ==
  fh.done => /\ HeaderConforms(fh.data, fh.header)
             /\ HeaderConforms(fh.data, fh.utils_header)

\* C21: encoding an unmasked header and parsing the bytes back gives the
\* header again: the parser returns the length the encoder wrote, with FIN
\* set, the same opcode, no mask and the same payload length, for every
\* opcode and for lengths on both sides of 125/126 and 65535/65536.
C21_EncodeThenParseIsIdentity ==
  (rt.done /\ ~rt.mask) =>
    /\ rt.header.size = Len(rt.bytes)
    /\ rt.header.fin
    /\ rt.header.opcode = rt.opcode
    /\ ~rt.header.masked
    /\ rt.header.payload_len = rt.payload_len

\* A close header of length 65536 went through the 64-bit form and back.
C21_Witness ==
  /\ rt.done /\ ~rt.mask
  /\ rt.opcode = OpClose
  /\ rt.payload_len = SizeT(65536)
  /\ rt.header.size = 10

\* The octets of the mask key in a parsed header.
MaskLen(h) == IF h.masked THEN 4 ELSE 0

\* C22 as stated: whatever header the parser accepts, encoding an unmasked
\* header with the parsed opcode and payload length gives as many octets
\* as the parsed header had without its mask key.
C22_ReencodedLengthMatches ==
  fh.redone => Len(fh.reencoded) = fh.header.size - MaskLen(fh.header)

\* The header uses the shortest length form for its payload length: the
\* 16-bit form only from 126 on, the 64-bit form only from 65536 on.
MinimalLengthForm(h) ==
  LET ext == h.size - MaskLen(h) - 2
  IN /\ ext = 2 => U64Low(h.payload_len) >= 126
     /\ ext = 8 => ~U64Small(h.payload_len)

\* C22 amended: the lengths agree for every accepted header whose length
\* form is the shortest one for its payload length.
C22_ReencodedLengthMatchesMinimal ==
  (fh.redone /\ MinimalLengthForm(fh.header)) =>
    Len(fh.reencoded) = fh.header.size - MaskLen(fh.header)

\* A masked header in the 64-bit form, with a length that needs it, was
\* parsed (14 octets) and encoded again (10 octets).
C22_Witness ==
  /\ fh.redone
  /\ fh.header.masked
  /\ fh.header.size = 14
  /\ MinimalLengthForm(fh.header)
  /\ Len(fh.reencoded) = 10

\* The first frame in rx has a complete header and declares more payload
\* than rx holds after it, the sum taken without wrapping.
DeclaresMoreThanHeld(rx) ==
  LET h == parse_frame_header(rx)
  IN /\ h.size # 0
     /\ \/ ~U64Small(h.payload_len)
        \/ h.size + U64Low(h.payload_len) > Len(rx)

\* C23: when the frame at the head of RX declares a payload that, added to
\* the header length without wrapping, exceeds the bytes in RX, parse_frames
\* consumes nothing, reads no payload outside the snapshot, fires no
\* callback and leaves the connection waiting, whatever 64-bit length is
\* declared.
C23_OverlongFrameWaits ==
  (cx.done /\ DeclaresMoreThanHeld(cx.pre.rx)) => cx.c = cx.pre

\* The first frame in rx is a ping that rx holds completely.
CompletePing(rx) ==
  LET h == parse_frame_header(rx)
  IN /\ h.size # 0
     /\ h.opcode = OpPing
     /\ U64Small(h.payload_len)
     /\ h.size + U64Low(h.payload_len) <= Len(rx)

\* The payload of the first frame in rx, the mask taken off.
FirstPayload(rx) ==
  LET h == parse_frame_header(rx)
      raw == SubSeq(rx, h.size + 1, h.size + U64Low(h.payload_len))
  IN IF h.masked THEN [i \in 1..Len(raw) |-> Xor8(raw[i], rx[h.size - 4 + ((i - 1) % 4) + 1])]
     ELSE raw

\* C24: a complete ping frame received on an Open connection appends one
\* unmasked pong frame with the same payload to TX, behind what was queued
\* before, and on_message is not invoked for it.
C24_PingIsAnsweredByOnePong ==
  (cx.done /\ CompletePing(cx.pre.rx)) =>
    /\ cx.c.tx = cx.pre.tx \o <<128 + OpPong, Len(FirstPayload(cx.pre.rx))>>
                           \o FirstPayload(cx.pre.rx)
    /\ cx.c.cbs = cx.pre.cbs

\* C25: when the close frame of the peer is processed on an Open
\* connection (on_close(clean=false) has been invoked), the connection is
\* Closed and its socket is shut when that call returns, no on_message
\* follows (the frames behind the close frame in RX are not delivered), and
\* the sweep of the same iteration removes the connection: none is left in
\* the container when the next iteration starts.
C25_PeerCloseEndsConnection ==
  \A i \in 1..Len(conns) :
    \A k \in 1..Len(conns[i].cbs) :
      conns[i].cbs[k] = "close_unclean" =>
        /\ conns[i].state = "Closed"
        /\ ~conns[i].sock
        /\ \A j \in (k + 1)..Len(conns[i].cbs) : conns[i].cbs[j] # "message"
        /\ pc \notin {"check", "poll", "accept"}

\* A close frame was processed while a whole text frame was behind it in RX.
C25_Witness ==
  \E i \in 1..Len(conns) :
    /\ conns[i].rx = FrameCloseThenText
    /\ Count(conns[i], "close_unclean") = 1
    /\ pc = "sweep"

RECURSIVE HoldsCloseFrame(_)
\* Whether the frame stream s holds a complete close frame behind any
\* number of complete frames (7-bit lengths).
HoldsCloseFrame(s) ==
  LET total == HeadFrameLen(s)
  IN IF total = 0 THEN FALSE
     ELSE IF s[1] % 16 = 8 THEN TRUE
     ELSE HoldsCloseFrame(Drop(s, total))

\* C26: a connection the application has put in Closing whose RX has received the close frame of
\* the peer is moved to Closed, socket shut, by the on_data call of that
\* read, whatever frames the peer sent before the close frame: no
\* connection is ever left in Closing with a complete close frame in RX.
C26_ClosingEndsOnPeerClose ==
  \A i \in 1..Len(conns) :
    conns[i].state = "Closing" /\ conns[i].app_closed => ~HoldsCloseFrame(conns[i].rx)

\* The number of units of the received stream h up to and including the
\* first "\r\n\r\n", 0 when h holds none.
RequestEnd(h) ==
  LET e == Find(h, <<TokCRLF, TokCRLF>>, 1)
  IN IF e = 0 THEN 0 ELSE e + 1

\* A request that starts with "GET " and carries a key header, in either
\* spelling, with a value that is not empty.
WellFormed(req) ==
  /\ Len(req) > 0 /\ req[1] = TokGET
  /\ \E k \in 1..(Len(req) - 1) :
       req[k] \in {TokKeyHdr, TokKeyHdrLower} /\ req[k + 1] \notin {TokCRLF, ChSpace, ChTab}

\* A read has just completed a well-formed request in the RX of a
\* Handshaking connection.
RequestCompleted ==
  /\ cx.done /\ cx.pre.state = "Handshaking"
  /\ RequestEnd(cx.c.rx_hist) > 0
  /\ WellFormed(Take(cx.c.rx_hist, RequestEnd(cx.c.rx_hist)))

\* The handshake was performed by the last call: the request and nothing
\* more consumed from RX, the 101 response for the key and nothing else in
\* TX when on_open ran, on_open invoked once and the connection Open
\* (unless the on_open handler closed it).
HandshakeDone ==
  /\ cx.c.handshake_completed
  /\ cx.c.rx = Drop(cx.c.rx_hist, RequestEnd(cx.c.rx_hist))
  /\ cx.c.open_tx = <<TokResp101, generate_accept_key(<<ChKey>>)>>
  /\ Take(cx.c.tx_hist, 2) = cx.c.open_tx
  /\ Count(cx.c, "open") = 1
  /\ cx.c.state = "Open" \/ cx.c.app_closed

\* C27 as stated: whenever RX of a Handshaking connection holds a complete
\* well-formed request, on_data consumes exactly the request, queues
\* exactly the 101 response in the empty TX and opens the connection.
C27_CompleteRequestOpens == RequestCompleted => HandshakeDone

\* C27, amended: the same for a request that lies, terminator included,
\* within the snapshot parse_handshake takes of RX.
C27_RequestInSnapshotOpens ==
  RequestCompleted /\ RequestEnd(cx.c.rx_hist) <= HsPeek => HandshakeDone

\* A request was completed with the first octets of a frame behind it.
C27_Witness ==
  /\ RequestCompleted
  /\ cx.c.rx_hist = ReqValid \o FrameEmptyText
  /\ cx.c.rx = FrameEmptyText
  /\ cx.c.state = "Open"

\* The last read left a Handshaking connection without "\r\n\r\n" among
\* the bytes received, and on_data changed nothing: the call reported
\* success, the bytes read were added to RX and nothing was consumed, and
\* state, TX and callbacks are as before.
IncompleteWaits ==
  cx.done /\ cx.pre.state = "Handshaking" /\ RequestEnd(cx.c.rx_hist) = 0 =>
    /\ cx.ret
    /\ cx.c.state = "Handshaking" /\ ~cx.c.handshake_completed
    /\ cx.c.rx = cx.c.rx_hist
    /\ cx.c.tx = cx.pre.tx /\ cx.c.tx_hist = cx.pre.tx_hist
    /\ cx.c.cbs = cx.pre.cbs
    /\ cx.c.sock

\* The whole of a well-formed request has been received, in however many
\* reads.
RequestReceived ==
  /\ RequestEnd(cx.c.rx_hist) > 0
  /\ WellFormed(Take(cx.c.rx_hist, RequestEnd(cx.c.rx_hist)))

HandshakeFailsStep ==
  /\ pc = "io_read" /\ pc' = "io_write"
  /\ io_i <= Len(conns) /\ io_i <= Len(conns')
  /\ conns[io_i].state = "Handshaking"
  /\ RequestEnd(conns[io_i].rx) = 0
  /\ RequestEnd(conns'[io_i].rx) > 0
  /\ ~WellFormed(Take(conns'[io_i].rx, RequestEnd(conns'[io_i].rx)))

\* The step is a send / send_binary on an Open connection whose TX has no
\* room for the frame.
SendDroppedStep ==
  /\ api_calls' = api_calls + 1
  /\ op'.name = "send" /\ op'.pre.state = "Open" /\ ~SendFits(op')

\* C29: each handshake failure adds exactly one to handshake_errors and
\* each send dropped for lack of room in TX adds exactly one to
\* buffer_overflows.
C29_ErrorCountersCountEvents ==
  [][/\ HandshakeFailsStep => handshake_errors' = handshake_errors + 1
     /\ SendDroppedStep => buffer_overflows' = buffer_overflows + 1]_vars

\* C30: a connection whose on_readable or on_writable has returned a
\* failure is closed (is_closed() holds) when the sweep of the iteration
\* runs, whatever state it was in when the call failed.
C30_FailedIoIsClosedAtSweep ==
  pc = "sweep" =>
    \A i \in 1..Len(conns) : conns[i].io_failed => is_closed(conns[i])

\* C31: a connection is in Closed state exactly when its socket has been
\* closed, and when the poll set of an iteration is built (and while the
\* thread waits in poll) the container holds no such connection: every
\* descriptor polled is an open socket.
C31_PolledSocketsAreOpen ==
  /\ \A i \in 1..Len(conns) : (conns[i].state = "Closed") <=> ~conns[i].sock
  /\ pc \in {"check", "poll"} =>
       \A i \in 1..Len(conns) : conns[i].state # "Closed" /\ conns[i].sock

\* The poll set is built for a connection accepted after an earlier one
\* was closed and swept.
C31_Witness ==
  /\ pc = "poll"
  /\ Len(conns) = 1
  /\ conns[1].id = 2
  /\ nfds = 2

\* The connections of cs that are not closed, as a set (ids are unique).
OpenOnes(cs) == {cs[i] : i \in {j \in 1..Len(cs) : ~is_closed(cs[j])}}

LargerThanRing(rx) ==
  LET h == parse_frame_header(rx)
  IN /\ h.size # 0
     /\ h.opcode \in {OpText, OpBinary}
     /\ \/ ~U64Small(h.payload_len)
        \/ h.size + U64Low(h.payload_len) > UnitWindow

\* C33: a frame whose header plus payload is larger than the RX ring is
\* never handed to on_message (the connection is closed by the reactor
\* once RX is full): parse_frames on an RX that starts with such a frame
\* invokes no callback and consumes nothing.
C33_OversizeFrameNotDelivered ==
  (cx.done /\ LargerThanRing(cx.pre.rx)) =>
    /\ Count(cx.c, "message") = Count(cx.pre, "message")
    /\ cx.c.rx = cx.pre.rx

\* C34 as stated: with fewer connections open than max_connections and
\* than the capacity of the container, a pending connection is accepted.
C34_BelowLimitIsAccepted ==
  (adm.done /\ adm.size < adm.limit /\ adm.size < kMaxConnections) =>
    adm.verdict = "admit"

\* C34, amended: the same while the connections counted do not exceed nine
\* tenths of max_connections.
C34_BelowThresholdIsAccepted ==
  (adm.done /\ adm.size < adm.limit /\ adm.size < kMaxConnections
            /\ 10 * adm.active <= 9 * adm.limit) =>
    adm.verdict = "admit"

\* A request was accepted with the count at nine tenths of the limit.
C34_Witness ==
  /\ adm.done
  /\ adm.limit = 20 /\ adm.active = 18 /\ adm.size = 18
  /\ adm.verdict = "admit"

\* What C35 says of the pool and its last call, for a given account of the
\* indices handed out and not given back before and after the call:
\* in_use + available is MaxSlots; acquire returns -1 exactly when no slot
\* was free; the index it returns is active and was not handed out; every
\* index handed out is active; release of an index out of range or not
\* active changes nothing.
PoolContract(held_before, held_now) ==
  /\ ObjectPool_in_use(pool) + ObjectPool_available(pool) = PoolSlots
  /\ ObjectPool_available(pool) \in 0..PoolSlots
  /\ pool_op.name = "acquire" =>
       /\ (pool_op.ret = -1) <=> (ObjectPool_available(pool_op.pre) = 0)
       /\ pool_op.ret # -1 =>
            /\ ObjectPool_is_active(pool, pool_op.ret)
            /\ pool_op.ret \notin held_before
  /\ \A idx \in held_now : ObjectPool_is_active(pool, idx)
  /\ (pool_op.name = "release" /\ ~ObjectPool_is_active(pool_op.pre, pool_op.idx)) =>
       pool = pool_op.pre

\* C35 as stated: an index acquire has returned stays active, and is not
\* returned again, until it is released.
C35_PoolContractUntilReleased ==
  PoolContract(pool_op.held.unreleased, pool_held.unreleased)

\* C35, amended: until it is released or the pool is reset.
C35_PoolContractUntilReleasedOrReset ==
  PoolContract(pool_op.held.live, pool_held.live)

\* The pool was exhausted, a slot was released, and the next acquire
\* returned it while the other slots were still held.
C35_Witness ==
  /\ pool_op.name = "acquire"
  /\ ObjectPool_available(pool_op.pre) = 1
  /\ pool_op.pre.free_list[0] # 0
  /\ pool_op.ret = pool_op.pre.free_list[0]
  /\ Cardinality(pool_held.live) = PoolSlots

\* Two ring buffers in the same state: indices, count and the readable
\* byte sequence.
SameRing(a, b) ==
  /\ a.read_idx_ = b.read_idx_
  /\ a.write_idx_ = b.write_idx_
  /\ a.count_ = b.count_
  /\ RingBuffer_peek(a, RingCap) = RingBuffer_peek(b, RingCap)

\* C36: filling the slices of fill_iovec_write in order with n <= available
\* bytes and calling commit_write(n) leaves the ring buffer as push of those
\* n bytes does; commit_write(n) with n > available advances by exactly
\* available.
C36_ReceiveIsPush ==
  rb_op.name = "commit_write" =>
    LET avail == RingBuffer_available(rb_op.pre)
    IN /\ rb_op.len <= avail =>
            /\ Len(rb_op.data) = rb_op.len
            /\ RingBuffer_push(rb_op.pre, rb_op.data).ret
            /\ SameRing(rb, RingBuffer_push(rb_op.pre, rb_op.data).rb)
       /\ rb_op.len > avail =>
            /\ rb.write_idx_ = (rb_op.pre.write_idx_ + avail) % RingCap
            /\ rb.count_ = rb_op.pre.count_ + avail
            /\ rb.read_idx_ = rb_op.pre.read_idx_

\* Two bytes were received through two slices: the first at the end of
\* the array, the second at its start.
C36_Witness ==
  /\ rb_op.name = "commit_write"
  /\ rb_op.len = 2
  /\ rb_op.pre.write_idx_ = RingCap - 1
  /\ rb_op.pre.count_ = 1
  /\ rb_op.data = <<1, 2>>
  /\ RingBuffer_peek(rb, RingCap)[2] = 1
  /\ RingBuffer_peek(rb, RingCap)[3] = 2

RECURSIVE WholeServerFrames(_)
\* s is a concatenation of complete frames with FIN set and the mask bit
\* clear (7-bit lengths).
WholeServerFrames(s) ==
  \/ s = <<>>
  \/ /\ Len(s) >= 2
     /\ s[1] >= 128
     /\ s[2] < 126
     /\ Len(s) >= 2 + s[2]
     /\ WholeServerFrames(Drop(s, 2 + s[2]))

\* C37: the bytes ever appended to a connection's TX are the 101 response
\* followed by complete, unmasked, FIN-set frames; no send, pong echo or
\* close frame leaves a header in TX without its full payload.
C37_TxIsResponseThenWholeFrames ==
  \A i \in 1..Len(conns) :
    LET c == conns[i]
    IN c.tx_hist # <<>> =>
         /\ Len(c.tx_hist) >= 2
         /\ Take(c.tx_hist, 2) = Response101(<<ChKey>>)
         /\ WholeServerFrames(Drop(c.tx_hist, 2))

\* What C38 allows one step to do to a connection, c before and d after:
\* on_message is entered only if the connection was not yet past Open, had
\* not been closed by the application and had not had on_close; and when a
\* handler calls close() during the step (it does so the first time it is
\* entered) no second on_message follows.
MessagesOnlyWhileOpen(c, d) ==
  LET n == Count(d, "message") - Count(c, "message")
  IN /\ n > 0 => c.state \in {"Handshaking", "Open"} /\ ~c.app_closed /\ NumClose(c) = 0
     /\ (d.app_closed /\ ~c.app_closed) => n <= 1

\* C38: on_message is delivered only while the connection is Open; once
\* close() has been called on it, also from inside one of its callbacks, or
\* on_close has fired, no further on_message is delivered, even for frames
\* already buffered in RX.
C38_NoMessageAfterClose ==
  [][\A i \in 1..Len(conns), j \in 1..Len(conns') :
       conns[i].id = conns'[j].id => MessagesOnlyWhileOpen(conns[i], conns'[j])]_vars

\* The place of a state in the order Handshaking, Open, Closing, Closed.
StateRank(state) ==
  CASE state = "Handshaking" -> 0
    [] state = "Open" -> 1
    [] state = "Closing" -> 2
    [] state = "Closed" -> 3

\* One step on a connection, c before and d after, moves its state forward
\* only: Open is entered from Handshaking, Closing from Open (a step that
\* starts in Handshaking has then completed the handshake and had on_open),
\* and a Closed connection keeps its state, its closed socket and its TX.
ForwardOnly(c, d) ==
  /\ StateRank(d.state) >= StateRank(c.state)
  /\ (d.state = "Open" /\ c.state # "Open") => c.state = "Handshaking"
  /\ (d.state = "Closing" /\ c.state # "Closing") =>
       \/ c.state = "Open"
       \/ c.state = "Handshaking" /\ d.handshake_completed /\ Count(d, "open") = 1
  /\ c.state = "Closed" =>
       /\ d.state = "Closed"
       /\ ~c.sock /\ ~d.sock
       /\ d.tx = c.tx
       /\ d.tx_hist = c.tx_hist

C40_NoCompleteFrameLeftInRx ==
  (cx.done /\ cx.ret /\ cx.c.state = "Open") => HeadFrameLen(cx.c.rx) = 0
====
